---- MODULE Spec2Model ----
(***************************************************************************)
(* Provider abstraction and response validation of the Firefox tab         *)
(* organizer: the registry factory, the provider operations categorize,    *)
(* cleanTabs and testConnection, the free-text extraction and validation   *)
(* of llm-provider.ts, the schema validation of simple-ai-sdk-provider.ts  *)
(* and the background handlers that deliver the outcome to the popup.      *)
(*                                                                         *)
(* JSON values are tagged tuples:                                          *)
(*   <<"undef">>  <<"null">>  <<"bool", b>>  <<"num", n>>  <<"frac">>      *)
(*   <<"str", s>>  <<"arr", <<v1, ..>> >>  <<"obj", << <<k1, v1>>, ..>> >> *)
(* Text is a sequence of tokens:                                           *)
(*   <<"p", c>>  one of the characters { } [ ] : ,                         *)
(*   <<"ws">>    white space        <<"fence">>  three backticks           *)
(*   <<"word", w>>  a run of letters (prose, the tag json, null, true)     *)
(*   <<"pad">>   a run of PadWidth prose characters                        *)
(*   <<"s", s>>  a quoted string    <<"n", n>>  an integer literal         *)
(*   <<"f">>     a literal with a fraction, such as 1.5                    *)
(***************************************************************************)
EXTENDS Integers, Sequences, FiniteSets, TLC

\* ------------------------------------------------------------------ bounds
MaxGroups == 2
MaxTabs == 2
PadWidth == 150
MaxCalls == 2
MaxRequests == 3
MaxChanges == 1

\* ------------------------------------------------------- program constants
EXCERPT_LEN == 200

Min(a, b) == IF a <= b THEN a ELSE b

\* ------------------------------------------------------------- JSON values
Undef == <<"undef">>
Null == <<"null">>
Num(n) == <<"num", n>>
Str(s) == <<"str", s>>
Arr(a) == <<"arr", a>>
Obj(o) == <<"obj", o>>
Frac == <<"frac">>

P(c) == <<"p", c>>
Ws == <<"ws">>
Fence == <<"fence">>
Word(w) == <<"word", w>>
Pad == <<"pad">>

\* JSON.stringify of a value, token by token.
RECURSIVE Stringify(_), StringifyElems(_), StringifyMembers(_)
StringifyElems(a) ==
    IF a = <<>> THEN <<>>
    ELSE IF Len(a) = 1 THEN Stringify(a[1])
    ELSE Stringify(a[1]) \o <<P(",")>> \o StringifyElems(Tail(a))

StringifyMembers(o) ==
    IF o = <<>> THEN <<>>
    ELSE LET m == <<<<"s", o[1][1]>>, P(":")>> \o Stringify(o[1][2])
         IN IF Len(o) = 1 THEN m ELSE m \o <<P(",")>> \o StringifyMembers(Tail(o))

Stringify(v) ==
    CASE v[1] = "null" -> <<Word("null")>>
      [] v[1] = "bool" -> <<Word(IF v[2] THEN "true" ELSE "false")>>
      [] v[1] = "num" -> <<<<"n", v[2]>>>>
      [] v[1] = "frac" -> <<<<"f">>>>
      [] v[1] = "str" -> <<<<"s", v[2]>>>>
      [] v[1] = "arr" -> <<P("[")>> \o StringifyElems(v[2]) \o <<P("]")>>
      [] v[1] = "obj" -> <<P("{")>> \o StringifyMembers(v[2]) \o <<P("}")>>

\* JSON.parse: a recursive-descent parser over the tokens. A parse result is
\* [ok, v, i]: whether a value was read, the value, the next position.
PFail == [ok |-> FALSE, v |-> Undef, i |-> 0]
POk(v, i) == [ok |-> TRUE, v |-> v, i |-> i]

RECURSIVE SkipWs(_, _)
SkipWs(t, i) == IF i <= Len(t) /\ t[i] = Ws THEN SkipWs(t, i + 1) ELSE i

IsTok(t, i, tok) == i <= Len(t) /\ t[i] = tok

RECURSIVE ParseValue(_, _), ParseElems(_, _, _), ParseMembers(_, _, _)
\* after "[" or after a ",": read a value, then "," or "]"
ParseElems(t, i0, acc) ==
    LET r == ParseValue(t, i0)
        j == SkipWs(t, r.i)
    IN IF ~r.ok THEN PFail
       ELSE IF IsTok(t, j, P(",")) THEN ParseElems(t, j + 1, Append(acc, r.v))
       ELSE IF IsTok(t, j, P("]")) THEN POk(Arr(Append(acc, r.v)), j + 1)
       ELSE PFail

\* after "{" or after a ",": read "key" : value, then "," or "}"
ParseMembers(t, i0, acc) ==
    LET i == SkipWs(t, i0)
        c == SkipWs(t, i + 1)
        r == ParseValue(t, c + 1)
        j == SkipWs(t, r.i)
    IN IF ~(i <= Len(t) /\ t[i][1] = "s") THEN PFail
       ELSE IF ~IsTok(t, c, P(":")) THEN PFail
       ELSE IF ~r.ok THEN PFail
       ELSE IF IsTok(t, j, P(",")) THEN ParseMembers(t, j + 1, Append(acc, <<t[i][2], r.v>>))
       ELSE IF IsTok(t, j, P("}")) THEN POk(Obj(Append(acc, <<t[i][2], r.v>>)), j + 1)
       ELSE PFail

ParseValue(t, i0) ==
    LET i == SkipWs(t, i0)
    IN IF i > Len(t) THEN PFail
       ELSE LET k == t[i]
            IN CASE k[1] = "s" -> POk(Str(k[2]), i + 1)
                 [] k[1] = "n" -> POk(Num(k[2]), i + 1)
                 [] k[1] = "f" -> POk(Frac, i + 1)
                 [] k[1] = "word" ->
                      IF k[2] = "null" THEN POk(Null, i + 1)
                      ELSE IF k[2] = "true" THEN POk(<<"bool", TRUE>>, i + 1)
                      ELSE IF k[2] = "false" THEN POk(<<"bool", FALSE>>, i + 1)
                      ELSE PFail
                 [] k = P("[") ->
                      IF IsTok(t, SkipWs(t, i + 1), P("]"))
                      THEN POk(Arr(<<>>), SkipWs(t, i + 1) + 1)
                      ELSE ParseElems(t, i + 1, <<>>)
                 [] k = P("{") ->
                      IF IsTok(t, SkipWs(t, i + 1), P("}"))
                      THEN POk(Obj(<<>>), SkipWs(t, i + 1) + 1)
                      ELSE ParseMembers(t, i + 1, <<>>)
                 [] OTHER -> PFail

\* JSON.parse(text): the whole text must be one value; otherwise SyntaxError.
JSONParse(t) ==
    LET r == ParseValue(t, 1)
    IN IF r.ok /\ SkipWs(t, r.i) > Len(t) THEN POk(r.v, r.i) ELSE PFail


\* -------------------------------------------------- JavaScript semantics
IsArray(v) == v[1] = "arr"
IsObj(v) == v[1] = "obj"
IsString(v) == v[1] = "str"
IsNumber(v) == v[1] \in {"num", "frac"}
Nullish(v) == v[1] \in {"null", "undef"}

\* !v is FALSE exactly for the truthy values
Truthy(v) ==
    CASE v[1] \in {"undef", "null"} -> FALSE
      [] v[1] = "bool" -> v[2]
      [] v[1] = "num" -> v[2] # 0
      [] v[1] = "str" -> v[2] # ""
      [] OTHER -> TRUE

\* v.k for a non-nullish v: the own property, or undefined
RECURSIVE Lookup(_, _)
Lookup(o, k) ==
    IF o = <<>> THEN Undef
    ELSE IF o[Len(o)][1] = k THEN o[Len(o)][2]
    ELSE Lookup(SubSeq(o, 1, Len(o) - 1), k)

Get(v, k) == IF IsObj(v) THEN Lookup(v[2], k) ELSE Undef

HasKey(o, k) == \E i \in 1..Len(o) : o[i][1] = k

\* { ...o, k: v }
SetKey(o, k, v) ==
    IF HasKey(o, k)
    THEN [i \in 1..Len(o) |-> IF o[i][1] = k THEN <<k, v>> ELSE o[i]]
    ELSE Append(o, <<k, v>>)

\* ------------------------------------------------------ errors and text
\* An error is [name, msg]; msg is a sequence of parts: <<"lit", text>> or
\* <<"resp", n>>, the first n characters of the backend response.
Lit(s) == <<"lit", s>>
Err(name, msg) == [name |-> name, msg |-> msg]
Ok(v) == <<"ok", v>>
Throw(e) == <<"throw", e>>
IsOk(r) == r[1] = "ok"
IsThrow(r) == r[1] = "throw"

\* String(error) and `${error}`: "<name>: <message>"
ErrToString(e) == <<Lit(e.name), Lit(": ")>> \o e.msg

Width(tok) == IF tok = Pad THEN PadWidth ELSE 1
RECURSIVE CharLen(_)
CharLen(t) == IF t = <<>> THEN 0 ELSE Width(t[1]) + CharLen(Tail(t))

\* response.substring(0, 200), as the number of characters it keeps
Excerpt(response) == <<"resp", Min(CharLen(response), EXCERPT_LEN)>>

\* ------------------------------------------------------------ extractJSON
\* /```(?:json)?\s*(\{[\s\S]*?\})\s*```/ tried at the fence at position p:
\* the capture runs from the brace at b to the first closing brace that
\* white space and a fence follow.
FenceOpen(t, p) ==
    LET a == IF IsTok(t, p + 1, Word("json")) /\ IsTok(t, SkipWs(t, p + 2), P("{"))
             THEN SkipWs(t, p + 2) ELSE SkipWs(t, p + 1)
    IN a

FenceCloses(t, b) ==
    {e \in (b + 1)..Len(t) : t[e] = P("}") /\ IsTok(t, SkipWs(t, e + 1), Fence)}

FenceStarts(t) ==
    {p \in 1..Len(t) : /\ t[p] = Fence
                       /\ IsTok(t, FenceOpen(t, p), P("{"))
                       /\ FenceCloses(t, FenceOpen(t, p)) # {}}

SetMin(S) == CHOOSE x \in S : \A y \in S : x <= y
SetMax(S) == CHOOSE x \in S : \A y \in S : x >= y

\* /\{[\s\S]*\}/: from the first opening brace to the last closing brace
OpenBraces(t) == {i \in 1..Len(t) : t[i] = P("{")}
CloseBraces(t) == {i \in 1..Len(t) : t[i] = P("}")}
ObjectMatch(t) ==
    OpenBraces(t) # {} /\ CloseBraces(t) # {} /\ SetMax(CloseBraces(t)) > SetMin(OpenBraces(t))

RECURSIVE TrimLeft(_), TrimRight(_)
TrimLeft(t) == IF t # <<>> /\ t[1] = Ws THEN TrimLeft(Tail(t)) ELSE t
TrimRight(t) == IF t # <<>> /\ t[Len(t)] = Ws THEN TrimRight(SubSeq(t, 1, Len(t) - 1)) ELSE t
Trim(t) == TrimRight(TrimLeft(t))

\* the variant that stops at the first closing brace
extractJSON_lazy(response) ==
    IF FenceStarts(response) # {}
    THEN LET b == FenceOpen(response, SetMin(FenceStarts(response)))
         IN SubSeq(response, b, SetMin(FenceCloses(response, b)))
    ELSE IF ObjectMatch(response)
    THEN SubSeq(response, SetMin(OpenBraces(response)),
                SetMin({e \in CloseBraces(response) : e > SetMin(OpenBraces(response))}))
    ELSE Trim(response)

extractJSON(response) ==
    IF FenceStarts(response) # {}
    THEN LET b == FenceOpen(response, SetMin(FenceStarts(response)))
         IN SubSeq(response, b, SetMin(FenceCloses(response, b)))
    ELSE IF ObjectMatch(response)
    THEN SubSeq(response, SetMin(OpenBraces(response)), SetMax(CloseBraces(response)))
    ELSE Trim(response)

\* --------------------------------------------- validation (llm-provider.ts)
TypeErr(what) == Err("TypeError", <<Lit(what)>>)
SyntaxErr == Err("SyntaxError", <<Lit("JSON.parse: unexpected character")>>)

\* the loop over data.groups: the first group that fails decides the error
RECURSIVE validateGroups(_)
validateGroups(gs) ==
    IF gs = <<>> THEN Ok(Undef)
    ELSE IF Nullish(gs[1]) THEN Throw(TypeErr("group is null"))
    ELSE IF \/ ~Truthy(Get(gs[1], "name"))
            \/ ~Truthy(Get(gs[1], "color"))
            \/ ~IsArray(Get(gs[1], "tabIndices"))
    THEN Throw(Err("Error", <<Lit("Invalid group structure")>>))
    ELSE validateGroups(Tail(gs))

\* the variant that never looks at the groups
validateGrouping_nogroups(data) ==
    IF Nullish(data) THEN Throw(TypeErr("data is null"))
    ELSE IF ~Truthy(Get(data, "groups")) \/ ~IsArray(Get(data, "groups"))
    THEN Throw(Err("Error", <<Lit("Invalid response: missing groups array")>>))
    ELSE IF ~IsArray(Get(data, "ungrouped"))
    THEN Throw(Err("Error", <<Lit("Invalid response: missing ungrouped array")>>))
    ELSE Ok(Undef)

validateGrouping(data) ==
    IF Nullish(data) THEN Throw(TypeErr("data is null"))
    ELSE IF ~Truthy(Get(data, "groups")) \/ ~IsArray(Get(data, "groups"))
    THEN Throw(Err("Error", <<Lit("Invalid response: missing groups array")>>))
    ELSE IF IsThrow(validateGroups(Get(data, "groups")[2]))
    THEN validateGroups(Get(data, "groups")[2])
    ELSE IF ~IsArray(Get(data, "ungrouped"))
    THEN Throw(Err("Error", <<Lit("Invalid response: missing ungrouped array")>>))
    ELSE Ok(Undef)

validateCleanResult(data) ==
    IF Nullish(data) THEN Throw(TypeErr("data is null"))
    ELSE IF ~IsArray(Get(data, "tabsToClose"))
    THEN Throw(Err("Error", <<Lit("Invalid response: missing tabsToClose array")>>))
    ELSE IF ~IsString(Get(data, "reasoning"))
    THEN Throw(Err("Error", <<Lit("Invalid response: missing reasoning string")>>))
    ELSE Ok(Undef)

\* the error both parse functions throw from their catch block
ParseFailure(error, response) ==
    Err("Error", <<Lit("Failed to parse LLM response: ")>> \o ErrToString(error)
                  \o <<Lit(". Response: "), Excerpt(response), Lit("...")>>)

\* the variant whose catch block answers with an empty grouping
parseResponse_swallow(response) ==
    LET r == JSONParse(extractJSON(response))
    IN IF ~r.ok THEN Ok(Obj(<<<<"groups", Arr(<<>>)>>, <<"ungrouped", Arr(<<>>)>>>>))
       ELSE IF IsThrow(validateGrouping(r.v))
       THEN Ok(Obj(<<<<"groups", Arr(<<>>)>>, <<"ungrouped", Arr(<<>>)>>>>))
       ELSE Ok(r.v)

parseResponse(response) ==
    LET r == JSONParse(extractJSON(response))
    IN IF ~r.ok THEN Throw(ParseFailure(SyntaxErr, response))
       ELSE IF IsThrow(validateGrouping(r.v))
       THEN Throw(ParseFailure(validateGrouping(r.v)[2], response))
       ELSE Ok(r.v)

\* tabs[idx] for a JSON value idx: an integer (or its canonical string, as a
\* property name) within the array designates a tab; anything else is undefined.
IndexOf(idx) ==
    CASE idx[1] = "num" -> idx[2]
      [] idx = Str("0") -> 0
      [] idx = Str("1") -> 1
      [] idx = Str("2") -> 2
      [] idx = Str("3") -> 3
      [] OTHER -> -1

Designates(tabs, idx) == IndexOf(idx) >= 0 /\ IndexOf(idx) < Len(tabs)

\* { title: tabs[idx]?.title || "Unknown", url: tabs[idx]?.url || "" }
tabDetail(tabs, idx) ==
    IF Designates(tabs, idx)
    THEN Obj(<<<<"title", Str(IF tabs[IndexOf(idx) + 1].title # ""
                              THEN tabs[IndexOf(idx) + 1].title ELSE "Unknown")>>,
               <<"url", Str(tabs[IndexOf(idx) + 1].url)>>>>)
    ELSE Obj(<<<<"title", Str("Unknown")>>, <<"url", Str("")>>>>)

\* the variant that keeps a tabDetails field the model supplied
withTabDetails_keep(data, tabs) ==
    IF HasKey(data[2], "tabDetails") THEN data
    ELSE Obj(SetKey(data[2], "tabDetails",
             Arr([i \in 1..Len(Get(data, "tabsToClose")[2]) |->
                    tabDetail(tabs, Get(data, "tabsToClose")[2][i])])))

\* the variant that is off by one tab
withTabDetails_shift(data, tabs) ==
    Obj(SetKey(data[2], "tabDetails",
        Arr([i \in 1..Len(Get(data, "tabsToClose")[2]) |->
               tabDetail(Tail(tabs), Get(data, "tabsToClose")[2][i])])))

\* { ...data, tabDetails: data.tabsToClose.map(...) }
withTabDetails(data, tabs) ==
    Obj(SetKey(data[2], "tabDetails",
        Arr([i \in 1..Len(Get(data, "tabsToClose")[2]) |->
               tabDetail(tabs, Get(data, "tabsToClose")[2][i])])))

parseCleanResponse(response, tabs) ==
    LET r == JSONParse(extractJSON(response))
    IN IF ~r.ok THEN Throw(ParseFailure(SyntaxErr, response))
       ELSE IF IsThrow(validateCleanResult(r.v))
       THEN Throw(ParseFailure(validateCleanResult(r.v)[2], response))
       ELSE Ok(withTabDetails(r.v, tabs))

\* ------------------------- schema validation (simple-ai-sdk-provider.ts)
tabGroupColorSchema ==
    {"blue", "red", "green", "yellow", "purple", "pink", "orange", "cyan"}

\* z.array(z.number())
NumberArray(v) == IsArray(v) /\ \A i \in 1..Len(v[2]) : IsNumber(v[2][i])

tabGroupSchema(g) ==
    /\ IsObj(g)
    /\ IsString(Get(g, "name"))
    /\ IsString(Get(g, "color")) /\ Get(g, "color")[2] \in tabGroupColorSchema
    /\ NumberArray(Get(g, "tabIndices"))
    /\ (Get(g, "reasoning") = Undef \/ IsString(Get(g, "reasoning")))

groupingResultSchema(v) ==
    /\ IsObj(v)
    /\ IsArray(Get(v, "groups"))
    /\ \A i \in 1..Len(Get(v, "groups")[2]) : tabGroupSchema(Get(v, "groups")[2][i])
    /\ NumberArray(Get(v, "ungrouped"))

cleanResultSchema(v) ==
    /\ IsObj(v)
    /\ NumberArray(Get(v, "tabsToClose"))
    /\ IsString(Get(v, "reasoning"))

\* z.object() keeps the declared keys, in the declared order, and drops the rest
Pick(v, keys) ==
    LET F[i \in 0..Len(keys)] ==
          IF i = 0 THEN <<>>
          ELSE IF Get(v, keys[i]) = Undef THEN F[i - 1]
          ELSE Append(F[i - 1], <<keys[i], Get(v, keys[i])>>)
    IN Obj(F[Len(keys)])

groupingOutput(v) ==
    Obj(<<<<"groups", Arr([i \in 1..Len(Get(v, "groups")[2]) |->
                Pick(Get(v, "groups")[2][i], <<"name", "color", "tabIndices", "reasoning">>)])>>,
          <<"ungrouped", Get(v, "ungrouped")>>>>)

cleanOutput(v) == Pick(v, <<"tabsToClose", "reasoning">>)

\* The error generateObject throws when the text is no JSON or fails the
\* schema. What the SDK puts in its message is not decided by this
\* repository: it names the failure and carries either nothing of the
\* response (withText = FALSE) or the whole text (withText = TRUE).
NoObjectError(response, withText) ==
    Err("AI_NoObjectGeneratedError",
        <<Lit("No object generated: response did not match schema.")>>
        \o (IF withText THEN <<<<"resp", CharLen(response)>>>> ELSE <<>>))

\* generateObject({schema: groupingResultSchema, ...}), given the backend text
generateGroupingObject(response, withText) ==
    LET r == JSONParse(response)
    IN IF r.ok /\ groupingResultSchema(r.v) THEN Ok(groupingOutput(r.v))
       ELSE Throw(NoObjectError(response, withText))

\* generateObject({schema: cleanResultSchema, ...}), given the backend text
generateCleanObject(response, withText) ==
    LET r == JSONParse(response)
    IN IF r.ok /\ cleanResultSchema(r.v) THEN Ok(cleanOutput(r.v))
       ELSE Throw(NoObjectError(response, withText))

\* --------------------------------------------------- prompts (llm-provider.ts)
\* the variant that labels a block with the browser's tab.index
tabBlocks_browserIndex(tabs) ==
    [i \in 1..Len(tabs) |-> <<tabs[i].index, tabs[i].title, tabs[i].url>>]

\* tabs.map((tab, idx) => `[${idx}] ${tab.title}\n    URL: ${tab.url}`)
tabBlocks(tabs) == [i \in 1..Len(tabs) |-> <<i - 1, tabs[i].title, tabs[i].url>>]

buildPrompt(tabs, userPrompt) ==
    [system |-> <<Lit("You are a tab organization assistant.")>>
                \o (IF userPrompt # "" THEN <<Lit("User guidance: "), Lit(userPrompt)>> ELSE <<>>)
                \o <<Lit("RESPONSE FORMAT - CRITICAL: groups, ungrouped")>>,
     user |-> tabBlocks(tabs)]

buildCleanPrompt(tabs, userPrompt) ==
    [system |-> <<Lit("You are a tab cleanup assistant."),
                  Lit("User request: "), Lit(userPrompt),
                  Lit("RESPONSE FORMAT - CRITICAL: tabsToClose, reasoning")>>,
     user |-> tabBlocks(tabs)]

NoPrompt == [system |-> <<>>, user |-> <<>>]

\* ------------------------------------------------ registry (provider-registry.ts)
PROVIDERS ==
    [bedrock |-> "BedrockProvider", claude |-> "ClaudeProvider", openai |-> "OpenAIProvider",
     gemini |-> "GeminiProvider", cerebras |-> "CerebrasProvider"]

\* names every JavaScript object inherits from Object.prototype
ObjectPrototypeKeys == {"toString", "constructor", "valueOf", "hasOwnProperty"}

NoProvider == [class |-> "none", config |-> "absent"]

\* the variant that falls back to the default provider
createProvider_default(type, config) ==
    IF type \in DOMAIN PROVIDERS THEN Ok([class |-> PROVIDERS[type], config |-> config])
    ELSE Ok([class |-> PROVIDERS["claude"], config |-> config])

\* PROVIDERS[type] is the own entry, an inherited member (truthy, without a
\* class) or undefined; new provider.class(config) only stores the config.
createProvider(type, config) ==
    IF type \in DOMAIN PROVIDERS THEN Ok([class |-> PROVIDERS[type], config |-> config])
    ELSE IF type \in ObjectPrototypeKeys
    THEN Throw(TypeErr("provider.class is not a constructor"))
    ELSE Throw(Err("Error", <<Lit("Unknown provider: "), Lit(type)>>))

\* ------------------------------------------------------- provider classes
\* A configuration is "absent" (undefined), or the credentials it holds:
\* "key" (an API key), and for Bedrock "bearer", "aws" or "empty".
Structured(class) == class \in {"GeminiProvider", "CerebrasProvider"}
UsesFetch(provider) == provider.class = "BedrockProvider" /\ provider.config = "bearer"

\* Reading this._config.<field> of an undefined configuration throws; this is
\* what getModel() and Bedrock's bearerToken test do before any request.
beforeRequest(provider) ==
    IF provider.config = "absent"
    THEN Throw(TypeErr("this._config is undefined"))
    ELSE Ok(Undef)

\* What generateText / generateObject / fetch make of a failed backend call.
\* reply is <<"error", e>> (transport failure), <<"status", e>> (rejection by
\* the backend with error text e) or <<"unexpected", e>> (a body without text).
transportFailure(provider, reply) ==
    IF UsesFetch(provider)
    THEN CASE reply[1] = "error" -> Err("TypeError", <<Lit(reply[2])>>)
           [] reply[1] = "status" ->
                Err("Error", <<Lit("Bedrock API error (status): "), Lit(reply[2])>>)
           [] OTHER -> Err("Error", <<Lit("Unexpected Bedrock API response format")>>)
    ELSE Err("AI_APICallError", <<Lit(reply[2])>>)

\* the text the call hands back, or the failure it throws
callResult(provider, reply) ==
    IF reply[1] # "text" THEN Throw(transportFailure(provider, reply))
    ELSE IF UsesFetch(provider) /\ reply[2] = <<>>
    THEN Throw(Err("Error", <<Lit("Unexpected Bedrock API response format")>>))
    ELSE Ok(reply[2])

categorizeResult(provider, reply, withText) ==
    IF IsThrow(callResult(provider, reply)) THEN callResult(provider, reply)
    ELSE IF Structured(provider.class) THEN generateGroupingObject(reply[2], withText)
    ELSE parseResponse(reply[2])

cleanTabsResult(provider, reply, tabs, withText) ==
    IF IsThrow(callResult(provider, reply)) THEN callResult(provider, reply)
    ELSE IF Structured(provider.class)
    THEN IF IsThrow(generateCleanObject(reply[2], withText))
         THEN generateCleanObject(reply[2], withText)
         ELSE Ok(withTabDetails(generateCleanObject(reply[2], withText)[2], tabs))
    ELSE parseCleanResponse(reply[2], tabs)

\* the variant without the try block
testConnectionResult_nocatch(provider, reply) ==
    IF IsThrow(beforeRequest(provider)) THEN beforeRequest(provider)
    ELSE IF IsThrow(callResult(provider, reply)) THEN callResult(provider, reply)
    ELSE Ok(<<"bool", TRUE>>)

\* try { await generateText(...); return true } catch { return false }
testConnectionResult(provider, reply) ==
    IF IsThrow(beforeRequest(provider)) THEN Ok(<<"bool", FALSE>>)
    ELSE IF IsThrow(callResult(provider, reply)) THEN Ok(<<"bool", FALSE>>)
    ELSE Ok(<<"bool", TRUE>>)

\* ------------------------------------------------------------ the inputs
\* the tabs a caller passes: the first n tabs of a window
TabAt(k) == [id |-> 10 + k,
             index |-> k,
             title |-> IF k = 1 THEN "Bank" ELSE IF k = 2 THEN "Recipe" ELSE "Untitled",
             url |-> IF k = 1 THEN "bank.com" ELSE IF k = 2 THEN "food.com" ELSE "x.org",
             active |-> FALSE, pinned |-> FALSE, groupId |-> -1]
TabSeqs == {[k \in 1..n |-> TabAt(k)] : n \in 1..MaxTabs}

\* a tab as browser.tabs.query reports it; tab.index counts the pinned tab too
PinnedTab == [id |-> Num(10), index |-> 0, title |-> "Mail", scheme |-> "https:",
              url |-> Str("mail.com"), pinned |-> TRUE, active |-> FALSE, groupId |-> -1]

RawAt(k) == [id |-> Num(TabAt(k).id), index |-> k,
             title |-> IF k <= 2 THEN TabAt(k).title ELSE "",
             scheme |-> "https:", url |-> Str(TabAt(k).url), pinned |-> FALSE,
             active |-> FALSE, groupId |-> -1]

\* tabs the extension leaves alone
SpecialTabs ==
    {[id |-> Num(21), index |-> 1, title |-> "New Tab", scheme |-> "about:",
      url |-> Str("about:newtab"), pinned |-> FALSE, active |-> FALSE, groupId |-> -1],
     [id |-> Num(22), index |-> 1, title |-> "Add-on", scheme |-> "moz-extension:",
      url |-> Str("moz-extension://abc/options.html"), pinned |-> FALSE, active |-> FALSE, groupId |-> -1],
     [id |-> Undef, index |-> 1, title |-> "Bank", scheme |-> "https:",
      url |-> Str("bank.com"), pinned |-> FALSE, active |-> FALSE, groupId |-> -1],
     [id |-> Num(24), index |-> 1, title |-> "Bank", scheme |-> "https:",
      url |-> Undef, pinned |-> FALSE, active |-> FALSE, groupId |-> -1]}

Windows ==
    {<<PinnedTab>> \o [k \in 1..n |-> RawAt(k)] : n \in 1..MaxTabs}
    \cup {<<PinnedTab, t>> : t \in SpecialTabs}

\* windows whose pinned and special tabs stand between the ordinary ones
MixedWindows ==
    {<<RawAt(1), CHOOSE t \in SpecialTabs : t.scheme = "about:", PinnedTab, RawAt(2)>>,
     <<CHOOSE t \in SpecialTabs : t.url = Undef, RawAt(2),
       CHOOSE t \in SpecialTabs : t.scheme = "moz-extension:", RawAt(1)>>}

\* the variant whose filter tests only for about: pages
getOrganizableTabs_aboutOnly(rawTabs) ==
    LET organizable(tab) ==
            /\ ~tab.pinned
            /\ tab.id # Undef
            /\ tab.url # Undef
            /\ tab.scheme # "about:"
        kept == SelectSeq(rawTabs, organizable)
    IN [i \in 1..Len(kept) |->
            [id |-> kept[i].id[2],
             index |-> kept[i].index,
             title |-> IF kept[i].title # "" THEN kept[i].title ELSE "Untitled",
             url |-> kept[i].url[2],
             active |-> kept[i].active,
             pinned |-> kept[i].pinned,
             groupId |-> kept[i].groupId]]

\* the variant whose filter lets pinned and special tabs through
getOrganizableTabs_keepPinned(rawTabs) ==
    LET organizable(tab) == tab.id # Undef /\ tab.url # Undef
        kept == SelectSeq(rawTabs, organizable)
    IN [i \in 1..Len(kept) |->
            [id |-> kept[i].id[2],
             index |-> kept[i].index,
             title |-> IF kept[i].title # "" THEN kept[i].title ELSE "Untitled",
             url |-> kept[i].url[2],
             active |-> kept[i].active,
             pinned |-> kept[i].pinned,
             groupId |-> kept[i].groupId]]

\* tabs.filter(...).map(...) of getOrganizableTabs
getOrganizableTabs(rawTabs) ==
    LET organizable(tab) ==
            /\ ~tab.pinned
            /\ tab.id # Undef
            /\ tab.url # Undef
            /\ tab.scheme \notin {"about:", "moz-extension:"}
        kept == SelectSeq(rawTabs, organizable)
    IN [i \in 1..Len(kept) |->
            [id |-> kept[i].id[2],
             index |-> kept[i].index,
             title |-> IF kept[i].title # "" THEN kept[i].title ELSE "Untitled",
             url |-> kept[i].url[2],
             active |-> kept[i].active,
             pinned |-> kept[i].pinned,
             groupId |-> kept[i].groupId]]

Guidances == {"", "finance"}

ProviderTypes == DOMAIN PROVIDERS \cup {"not-a-real-provider", "ollama", "", "toString"}

ConfigsOf(type) ==
    IF type = "bedrock" THEN {"absent", "bearer", "aws", "empty"}
    ELSE IF type \in DOMAIN PROVIDERS THEN {"absent", "key"}
    ELSE {"key"}

\* browser.storage.local: the selected identifier (or undefined) and the
\* configurations saved per identifier (hasConfigs = FALSE: never saved)
Stored(sel, has, configs) ==
    [selectedProvider |-> sel, hasConfigs |-> has, providerConfigs |-> configs]

NoStorage == Stored(Undef, FALSE, [t \in {} |-> "absent"])

\* what the options page saved: a registered provider with its credentials
\* ("nokey": the required API key left empty), or what a migration left behind
SavedConfigs ==
    {<<"bedrock", "bearer">>, <<"bedrock", "aws">>, <<"bedrock", "empty">>,
     <<"claude", "nokey">>, <<"openai", "key">>, <<"gemini", "key">>,
     <<"cerebras", "key">>, <<"ollama", "key">>, <<"not-a-real-provider", "key">>,
     <<"toString", "key">>}

Storages ==
    {Stored(Str(s[1]), TRUE, [t \in {s[1]} |-> s[2]]) : s \in SavedConfigs}
    \cup {Stored(Str(t), TRUE, [c \in {"claude"} |-> "key"]) :
              t \in {"", "gemini", "ollama", "toString"}}
    \cup {NoStorage, Stored(Str("claude"), FALSE, [t \in {} |-> "absent"])}

\* indices a confirmCloseTabs message carries
CloseRequests == {<<>>, <<Num(0)>>, <<Num(1), Num(0)>>, <<Num(7)>>}

BackendErrors == {"timeout", "401 Unauthorized"}

\* groups a model may answer with
Group(name, color, idx) ==
    Obj(<<<<"name", Str(name)>>, <<"color", Str(color)>>, <<"tabIndices", Arr(idx)>>>>)
GFinance == Group("Finance", "green", <<Num(0)>>)
GFood ==
    Obj(<<<<"name", Str("Food")>>, <<"color", Str("blue")>>,
          <<"tabIndices", Arr(<<Num(1), Num(0)>>)>>, <<"reasoning", Str("recipes")>>>>)
GroupPool == {GFinance, GFood}

Grouping(gs, un) == Obj(<<<<"groups", Arr(gs)>>, <<"ungrouped", Arr(un)>>>>)

GroupSeqs == UNION {[1..n -> GroupPool] : n \in 0..MaxGroups}

\* groupings that fit the declared shape
GoodGroupings ==
    {Grouping(gs, un) : gs \in GroupSeqs, un \in {<<>>, <<Num(1)>>}}

\* groups that miss the declared shape in one place (or are merely unusual)
OddGroups ==
    { Obj(<<<<"color", Str("blue")>>, <<"tabIndices", Arr(<<Num(0)>>)>>>>),
      Obj(<<<<"name", Str("Dev")>>, <<"tabIndices", Arr(<<Num(0)>>)>>>>),
      Obj(<<<<"name", Str("Dev")>>, <<"color", Str("blue")>>>>),
      Group("", "blue", <<Num(0)>>),
      Group("Dev", "magenta", <<Num(0)>>),
      Group("Dev", "", <<Num(0)>>),
      Group("Dev", "blue", <<Str("a")>>),
      Group("Dev", "blue", <<Frac>>),
      Group("Dev", "blue", <<Num(7), Num(0), Num(0)>>),
      Obj(<<<<"name", Num(5)>>, <<"color", Str("blue")>>, <<"tabIndices", Arr(<<>>)>>>>),
      Obj(<<<<"name", Str("Dev")>>, <<"color", Str("blue")>>, <<"tabIndices", Str("0")>>>>),
      Obj(<<<<"name", Str("Dev")>>, <<"color", Str("red")>>, <<"tabIndices", Arr(<<Num(0)>>)>>,
            <<"reasoning", Num(1)>>>>),
      Obj(<<<<"name", Str("Dev")>>, <<"color", Str("red")>>, <<"tabIndices", Arr(<<Num(0)>>)>>,
            <<"icon", Str("x")>>>>),
      Null }

OddGroupings ==
    {Grouping(<<g>>, <<Num(1)>>) : g \in OddGroups}
    \cup {Grouping(<<GFinance, g>>, <<>>) : g \in OddGroups}
    \cup { Obj(<<<<"ungrouped", Arr(<<>>)>>>>),
           Obj(<<<<"groups", Arr(<<GFinance>>)>>>>),
           Obj(<<<<"groups", Null>>, <<"ungrouped", Arr(<<>>)>>>>),
           Obj(<<<<"groups", Str("none")>>, <<"ungrouped", Arr(<<>>)>>>>),
           Obj(<<<<"groups", Arr(<<>>)>>, <<"ungrouped", Null>>>>),
           Obj(<<<<"groups", Arr(<<>>)>>, <<"ungrouped", Arr(<<Str("a")>>)>>>>),
           Obj(<<<<"ungrouped", Arr(<<>>)>>, <<"groups", Arr(<<GFinance>>)>>>>),
           Obj(<<>>), Null, Arr(<<>>), Num(5), Str("ok") }

GroupingCandidates == GoodGroupings \cup OddGroupings

Clean(idx, why) == Obj(<<<<"tabsToClose", Arr(idx)>>, <<"reasoning", why>>>>)

\* clean answers whose indices are integers
GoodCleans ==
    {Clean(idx, Str("stale")) :
        idx \in {<<>>, <<Num(0)>>, <<Num(1), Num(0)>>, <<Num(0), Num(0)>>, <<Num(7)>>,
                 <<Num(-1), Num(1)>>}}

OddCleans ==
    {Clean(idx, Str("stale")) : idx \in {<<Frac>>, <<Str("a")>>, <<Str("0")>>, <<Null>>}}
    \cup { Clean(<<Num(0)>>, Str("")),
           Clean(<<Num(0)>>, Num(3)),
           Obj(<<<<"tabsToClose", Arr(<<Num(0)>>)>>>>),
           Obj(<<<<"reasoning", Str("stale")>>>>),
           Obj(<<<<"tabsToClose", Str("0")>>, <<"reasoning", Str("stale")>>>>),
           Obj(<<<<"tabsToClose", Arr(<<Num(1)>>)>>, <<"reasoning", Str("stale")>>,
                 <<"tabDetails", Arr(<<Obj(<<<<"title", Str("Fake")>>, <<"url", Str("evil.com")>>>>)>>)>>>>),
           Obj(<<<<"tabDetails", Str("x")>>, <<"tabsToClose", Arr(<<Num(0)>>)>>,
                 <<"reasoning", Str("stale")>>>>),
           Null, Arr(<<>>) }

CleanCandidates == GoodCleans \cup OddCleans

\* how a model wraps the JSON it answers with
Wraps == {"raw", "spaced", "fenced", "barefence", "prose", "trailing", "leading",
          "long", "cut"}

Wrap(w, body) ==
    CASE w = "raw" -> body
      [] w = "spaced" -> <<Ws>> \o body \o <<Ws>>
      [] w = "fenced" -> <<Word("Here"), Ws, Fence, Word("json"), Ws>> \o body \o <<Ws, Fence>>
      [] w = "barefence" -> <<Fence>> \o body \o <<Fence, Ws, Word("Done")>>
      [] w = "prose" -> <<Word("Sure"), Ws>> \o body \o <<Ws, Word("Hope")>>
      [] w = "trailing" -> body \o <<Ws, Word("like"), Ws, P("{"), Word("x"), P("}")>>
      [] w = "leading" -> <<P("{"), Word("x"), P("}"), Ws, Fence, Word("json"), Ws>>
                          \o body \o <<Ws, Fence>>
      [] w = "long" -> <<Pad, Pad>> \o body
      [] w = "cut" -> SubSeq(body, 1, Len(body) - 1)

\* the wrappings tried on the answers that miss the declared shape
OddWraps == {"raw", "fenced"}

\* answers that carry no JSON at all
PlainTexts == {<<>>, <<Ws>>, <<Word("Sorry")>>}

NoCandidate == [has |-> FALSE, value |-> Undef, wrap |-> "none"]
Candidate(v, w) == [has |-> TRUE, value |-> v, wrap |-> w]

\* ------------------------------------------------- orchestrator (background.ts)
\* the variant that lists a tab once however often its index is given
getTabIds_unique(tabs, indices) ==
    LET F[i \in 0..Len(indices)] ==
          IF i = 0 THEN <<>>
          ELSE IF /\ Designates(tabs, indices[i])
                  /\ \A k \in 1..Len(F[i - 1]) :
                        F[i - 1][k] # tabs[IndexOf(indices[i]) + 1].id
          THEN Append(F[i - 1], tabs[IndexOf(indices[i]) + 1].id)
          ELSE F[i - 1]
    IN F[Len(indices)]

\* indices.map((idx) => tabs[idx]?.id).filter((id) => id !== undefined)
getTabIds(tabs, indices) ==
    LET F[i \in 0..Len(indices)] ==
          IF i = 0 THEN <<>>
          ELSE IF Designates(tabs, indices[i])
          THEN Append(F[i - 1], tabs[IndexOf(indices[i]) + 1].id)
          ELSE F[i - 1]
    IN F[Len(indices)]

\* storage-utils: the type (defaulting to "claude") and providerConfigs?.[type],
\* which is the own entry, a member inherited from Object.prototype, or undefined
loadProviderConfig(st) ==
    LET providerType == IF Truthy(st.selectedProvider) THEN st.selectedProvider[2]
                        ELSE "claude"
        providerConfig == IF ~st.hasConfigs THEN "absent"
                          ELSE IF providerType \in DOMAIN st.providerConfigs
                          THEN st.providerConfigs[providerType]
                          ELSE IF providerType \in ObjectPrototypeKeys THEN "inherited"
                          ELSE "absent"
    IN IF providerConfig = "absent"
       THEN Throw(Err("Error", <<Lit("Provider not configured. Please configure your LLM provider in settings.")>>))
       ELSE Ok([providerType |-> providerType, providerConfig |-> providerConfig])

\* the answer when no organizable tab is left
noTabsReply(op) ==
    [sent |-> TRUE, success |-> FALSE,
     error |-> <<Lit(IF op = "categorize"
                     THEN "No tabs to organize (only pinned or special tabs found)"
                     ELSE "No tabs to clean (only pinned or special tabs found)")>>,
     message |-> <<>>, cleanResult |-> Undef]

closeSuccess(tabIdsToClose) ==
    [sent |-> TRUE, success |-> TRUE, error |-> <<>>,
     message |-> <<Lit("Successfully closed "), <<"count", Len(tabIdsToClose)>>, Lit(" tabs")>>,
     cleanResult |-> Undef]

\* Promise.resolve({ success: false, error: "Unknown action" })
unknownReply ==
    [sent |-> TRUE, success |-> FALSE, error |-> <<Lit("Unknown action")>>,
     message |-> <<>>, cleanResult |-> Undef]

\* the listener's type guard and its three tests of message.action
routeOf(msg) ==
    IF msg[1] \in {"obj", "arr"} /\ (msg[1] = "obj" /\ HasKey(msg[2], "action"))
    THEN CASE Get(msg, "action") = Str("organizeTabs") -> "categorize"
           [] Get(msg, "action") = Str("cleanTabs") -> "cleanTabs"
           [] Get(msg, "action") = Str("confirmCloseTabs") -> "confirmCloseTabs"
           [] OTHER -> "unknown"
    ELSE "unknown"

\* what a page or another extension part may send
Messages ==
    {Undef, Null, Num(3), Str("organizeTabs"), Arr(<<Str("action")>>), Obj(<<>>),
     Obj(<<<<"userPrompt", Str("finance")>>>>),
     Obj(<<<<"action", Str("findDuplicates")>>>>),
     Obj(<<<<"action", Str("OrganizeTabs")>>>>),
     Obj(<<<<"action", Null>>>>),
     Obj(<<<<"action", Str("cleanTabs")>>, <<"userPrompt", Str("finance")>>>>)}

\* a rejected browser.storage.local.get / browser.tabs.query
StorageFailure == Err("Error", <<Lit("storage unavailable")>>)
QueryFailure == Err("Error", <<Lit("tabs.query failed")>>)

NoReply == [sent |-> FALSE, success |-> FALSE, error |-> <<>>, message |-> <<>>,
            cleanResult |-> Undef]

\* the variant whose catch block reports a fixed text
failureReply_generic(error) ==
    [sent |-> TRUE, success |-> FALSE, error |-> <<Lit("Something went wrong")>>,
     message |-> <<>>, cleanResult |-> Undef]

\* catch (error) { return { success: false, error: String(error) } }
failureReply(error) ==
    [sent |-> TRUE, success |-> FALSE, error |-> ErrToString(error), message |-> <<>>,
     cleanResult |-> Undef]

organizeSuccess(tabs, grouping) ==
    [sent |-> TRUE, success |-> TRUE, error |-> <<>>,
     message |-> <<Lit("Successfully organized "), <<"count", Len(tabs)>>, Lit(" tabs into "),
                   <<"count", Len(Get(grouping, "groups")[2])>>, Lit(" groups")>>,
     cleanResult |-> Undef]

cleanSuccess(cleanResult) ==
    [sent |-> TRUE, success |-> TRUE, error |-> <<>>,
     message |-> <<Lit("Found "), <<"count", Len(Get(cleanResult, "tabsToClose")[2])>>,
                   Lit(" tabs to close")>>,
     cleanResult |-> cleanResult]

\* ------------------------------------------------ popup and options page
\* handleResponse (organize) and the clean button's branches, as status text
popupStatus(op, r) ==
    IF op \in {"categorize", "confirmCloseTabs"}
    THEN IF r.success THEN <<Lit("OK ")>> \o r.message
         ELSE <<Lit("Error: ")>> \o (IF r.error # <<>> THEN r.error
                                     ELSE IF r.message # <<>> THEN r.message
                                     ELSE <<Lit("Unknown error")>>)
    ELSE IF r.success /\ Truthy(r.cleanResult)
         THEN IF Len(Get(r.cleanResult, "tabsToClose")[2]) = 0
              THEN <<Lit("No tabs matched your criteria")>>
              ELSE <<Lit("Found "), <<"count", Len(Get(r.cleanResult, "tabsToClose")[2])>>,
                     Lit(" tabs to close")>>
         ELSE <<Lit("Error: ")>> \o (IF r.error # <<>> THEN r.error ELSE r.message)

\* the test button of the options page
optionsStatus(result) ==
    IF IsThrow(result) THEN <<Lit("Connection error: ")>> \o ErrToString(result[2])
    ELSE IF result[2] = <<"bool", TRUE>> THEN <<Lit("Connection successful!")>>
    ELSE <<Lit("Connection failed. Check your credentials.")>>

\* ------------------------------------------------------------------ state
VARIABLES
    pc,            \* where the invocation stands
    op,            \* "categorize", "cleanTabs" or "testConnection"
    reqType,       \* the provider identifier given to createProvider
    config,        \* the configuration given to createProvider
    provider,      \* the constructed provider instance
    tabs,          \* the tab sequence handed to the provider
    guidance,      \* the user's prompt
    prompt,        \* the prompt built for this invocation
    netCalls,      \* requests handed to the backend
    candidate,     \* the JSON the backend answered with, and how it wrapped it
    response,      \* the backend's reply
    jsonStr,       \* what extractJSON isolated (free-text path)
    outcome,       \* what the provider call returned or threw
    gi,            \* applyGrouping: the next group
    browserGroups, \* tab groups created in the browser
    reply,         \* what the background handler answered
    uiStatus,      \* the status line shown to the user
    storage,       \* browser.storage.local when the message arrives
    window,        \* the tabs of the current window, as the browser reports them
    tabIndices,    \* the indices a confirmCloseTabs message carries
    removed,       \* tab ids handed to browser.tabs.remove by the handler
    instances,     \* provider instances that callers share
    calls,         \* the invocations running on them, each with its own locals
    now,           \* the clock, as the invocations read it
    message,       \* a message the listener does not recognize
    popup,         \* the popup page: currentCleanResult and what it shows
    requests,      \* the popup's requests to the background and their answers
    dup            \* the duplicate finder: its configuration and its result

vars == <<pc, op, reqType, config, provider, tabs, guidance, prompt, netCalls, candidate,
          response, jsonStr, outcome, gi, browserGroups, reply, uiStatus, storage, window,
          tabIndices, removed, instances, calls, now, message, popup, requests, dup>>

\* what one message's handling never touches
callSide == <<instances, calls, now>>

\* what the provider layer and the pages never touch
browserSide == <<storage, window, tabIndices, removed>>

\* what the handling of an organizeTabs, cleanTabs or confirmCloseTabs
\* message by itself never touches
pageSide == <<message, popup, requests, dup>>

\* the popup before DOMContentLoaded; resultOf tells which response object
\* currentCleanResult is, changes counts the tab events since the popup opened
NoPopup == [open |-> FALSE, currentCleanResult |-> Null, resultOf |-> 0,
            previewVisible |-> FALSE, previewList |-> <<>>, status |-> <<>>, changes |-> 0]

\* no search for duplicates has been made
NoDup ==
    [phase |-> "none",
     config |-> [matchStrategy |-> "url-normalized", keepStrategy |-> "keep-first",
                 whitelistDomains |-> <<>>, ignorePinned |-> TRUE, ignoreGrouped |-> FALSE,
                 neverCloseActive |-> TRUE, minDuplicates |-> 2],
     snapshot |-> <<>>,
     reply |-> [success |-> FALSE, error |-> <<>>, message |-> <<>>, hasResult |-> FALSE,
                duplicateResult |-> [duplicateGroups |-> <<>>, totalDuplicates |-> 0,
                                     tabsToClose |-> <<>>, tabDetails |-> <<>>]],
     currentCleanResult |-> [set |-> FALSE, tabsToClose |-> <<>>, tabDetails |-> <<>>]]

NoResponse == <<"none", "">>
NoOutcome == <<"none">>

\* no message is being handled
NoMessage ==
    /\ pc = "idle"
    /\ op = "none"
    /\ reqType = ""
    /\ config = "absent"
    /\ provider = NoProvider
    /\ tabs = <<>>
    /\ guidance = ""
    /\ prompt = NoPrompt
    /\ netCalls = 0
    /\ candidate = NoCandidate
    /\ response = NoResponse
    /\ jsonStr = <<>>
    /\ outcome = NoOutcome
    /\ gi = 1
    /\ browserGroups = <<>>
    /\ reply = NoReply
    /\ uiStatus = <<>>
    /\ storage = NoStorage
    /\ window = <<>>
    /\ tabIndices = <<>>
    /\ removed = <<>>
    /\ message = Undef
    /\ popup = NoPopup
    /\ requests = <<>>
    /\ dup = NoDup

Init ==
    /\ NoMessage
    /\ instances = <<>>
    /\ calls = <<>>
    /\ now = 0

\* an organizeTabs / cleanTabs message reaches the background listener;
\* storage and the window are what they are at that moment
Receive(o, st, win, g) ==
    /\ pc = "idle"
    /\ pc' = "received"
    /\ op' = o
    /\ storage' = st
    /\ window' = win
    /\ guidance' = g
    /\ UNCHANGED <<reqType, config, tabs, provider, prompt, netCalls, candidate, response,
                   jsonStr, outcome, gi, browserGroups, reply, uiStatus, tabIndices, removed>>
    /\ UNCHANGED callSide
    /\ UNCHANGED pageSide

\* a confirmCloseTabs message reaches the background listener
ReceiveConfirm(indices, win) ==
    /\ pc = "idle"
    /\ pc' = "received"
    /\ op' = "confirmCloseTabs"
    /\ tabIndices' = indices
    /\ window' = win
    /\ UNCHANGED <<reqType, config, tabs, guidance, provider, prompt, netCalls, candidate,
                   response, jsonStr, outcome, gi, browserGroups, reply, uiStatus, storage,
                   removed>>
    /\ UNCHANGED callSide
    /\ UNCHANGED pageSide

\* a message that passes none of the listener's tests
ReceiveUnknown(msg) ==
    /\ pc = "idle"
    /\ routeOf(msg) = "unknown"
    /\ message' = msg
    /\ op' = "unknown"
    /\ reply' = unknownReply
    /\ pc' = "done"
    /\ UNCHANGED <<reqType, config, tabs, guidance, provider, prompt, netCalls, candidate,
                   response, jsonStr, outcome, gi, browserGroups, uiStatus>>
    /\ UNCHANGED browserSide
    /\ UNCHANGED callSide
    /\ UNCHANGED <<popup, requests, dup>>

\* the test button: createProvider(currentProvider, config).testConnection()
ReceiveTest(type, cfg) ==
    /\ pc = "idle"
    /\ pc' = "loaded"
    /\ op' = "testConnection"
    /\ reqType' = type
    /\ config' = cfg
    /\ UNCHANGED <<tabs, guidance, provider, prompt, netCalls, candidate, response, jsonStr,
                   outcome, gi, browserGroups, reply, uiStatus>>
    /\ UNCHANGED browserSide
    /\ UNCHANGED callSide
    /\ UNCHANGED pageSide

\* organizeTabsWithAI / cleanTabsWithAI up to createProvider: load the
\* configuration, query the window, keep the organizable tabs, stop when
\* none is left
Load(how) ==
    /\ pc = "received"
    /\ op \in {"categorize", "cleanTabs"}
    /\ IF how = "storageFails"
       THEN /\ outcome' = Throw(StorageFailure)
            /\ pc' = "returned"
            /\ UNCHANGED <<reqType, config, tabs, reply>>
       ELSE IF IsThrow(loadProviderConfig(storage))
       THEN /\ how = "ok"
            /\ outcome' = loadProviderConfig(storage)
            /\ pc' = "returned"
            /\ UNCHANGED <<reqType, config, tabs, reply>>
       ELSE /\ reqType' = loadProviderConfig(storage)[2].providerType
            /\ config' = loadProviderConfig(storage)[2].providerConfig
            /\ IF how = "queryFails"
               THEN /\ outcome' = Throw(QueryFailure)
                    /\ pc' = "returned"
                    /\ UNCHANGED <<tabs, reply>>
               ELSE /\ tabs' = getOrganizableTabs(window)
                    /\ UNCHANGED outcome
                    /\ IF Len(getOrganizableTabs(window)) = 0
                       THEN reply' = noTabsReply(op) /\ pc' = "replied"
                       ELSE pc' = "loaded" /\ UNCHANGED reply
    /\ UNCHANGED <<op, guidance, provider, prompt, netCalls, candidate, response, jsonStr, gi,
                   browserGroups, uiStatus>>
    /\ UNCHANGED browserSide
    /\ UNCHANGED callSide
    /\ UNCHANGED pageSide

\* confirmCloseTabs: the indices are resolved against the window as it is
\* now; browser.tabs.remove may be rejected by the browser
ConfirmClose(how) ==
    /\ pc = "received"
    /\ op = "confirmCloseTabs"
    /\ LET tabData == getOrganizableTabs(window)
           tabIdsToClose == getTabIds(tabData, tabIndices)
           stays(tab) == tab.id = Undef \/ \A k \in 1..Len(tabIdsToClose) :
                                              tab.id[2] # tabIdsToClose[k]
       IN IF how = "queryFails"
          THEN /\ reply' = failureReply(QueryFailure)
               /\ UNCHANGED <<tabs, removed, window>>
          ELSE IF tabIdsToClose = <<>>
          THEN /\ how = "none"
               /\ reply' = [sent |-> TRUE, success |-> FALSE,
                            error |-> <<Lit("No valid tabs to close")>>,
                            message |-> <<>>, cleanResult |-> Undef]
               /\ tabs' = tabData
               /\ UNCHANGED <<removed, window>>
          ELSE \/ /\ how = "ok"
                  /\ tabs' = tabData
                  /\ removed' = tabIdsToClose
                  /\ window' = SelectSeq(window, stays)
                  /\ reply' = closeSuccess(tabIdsToClose)
               \/ /\ how = "removeFails"
                  /\ tabs' = tabData
                  /\ reply' = failureReply(Err("Error", <<Lit("Invalid tab ID")>>))
                  /\ UNCHANGED <<removed, window>>
    /\ pc' = "replied"
    /\ UNCHANGED <<op, reqType, config, provider, guidance, prompt, netCalls, candidate,
                   response, jsonStr, outcome, gi, browserGroups, uiStatus, storage, tabIndices>>
    /\ UNCHANGED callSide
    /\ UNCHANGED pageSide

\* the handler has answered and the page has shown it: nothing of this
\* message is kept, and the listener waits for the next one
Again ==
    /\ pc = "done"
    /\ pc' = "idle"
    /\ op' = "none"
    /\ reqType' = ""
    /\ config' = "absent"
    /\ provider' = NoProvider
    /\ tabs' = <<>>
    /\ guidance' = ""
    /\ prompt' = NoPrompt
    /\ netCalls' = 0
    /\ candidate' = NoCandidate
    /\ response' = NoResponse
    /\ jsonStr' = <<>>
    /\ outcome' = NoOutcome
    /\ gi' = 1
    /\ browserGroups' = <<>>
    /\ reply' = NoReply
    /\ uiStatus' = <<>>
    /\ storage' = NoStorage
    /\ window' = <<>>
    /\ tabIndices' = <<>>
    /\ removed' = <<>>
    /\ message' = Undef
    /\ UNCHANGED <<popup, requests, dup>>
    /\ UNCHANGED callSide

\* const provider = createProvider(providerType, providerConfig)
Create ==
    /\ pc = "loaded"
    /\ IF IsOk(createProvider(reqType, config))
       THEN /\ provider' = createProvider(reqType, config)[2]
            /\ pc' = "created"
            /\ UNCHANGED outcome
       ELSE /\ outcome' = createProvider(reqType, config)
            /\ pc' = "returned"
            /\ UNCHANGED provider
    /\ UNCHANGED <<op, reqType, config, tabs, guidance, prompt, netCalls, candidate, response,
                   jsonStr, gi, browserGroups, reply, uiStatus>>
    /\ UNCHANGED browserSide
    /\ UNCHANGED callSide
    /\ UNCHANGED pageSide

\* const prompt = this.buildPrompt(tabs, userPrompt)
BuildPrompt ==
    /\ pc = "created"
    /\ op \in {"categorize", "cleanTabs"}
    /\ prompt' = IF op = "categorize" THEN buildPrompt(tabs, guidance)
                 ELSE buildCleanPrompt(tabs, guidance)
    /\ pc' = "prompted"
    /\ UNCHANGED <<op, reqType, config, provider, tabs, guidance, netCalls, candidate, response,
                   jsonStr, outcome, gi, browserGroups, reply, uiStatus>>
    /\ UNCHANGED browserSide
    /\ UNCHANGED callSide
    /\ UNCHANGED pageSide

\* the variant that hands the call to the backend before the prompt is built
IssueRequest_unprompted ==
    /\ pc \in {"created", "prompted"}
    /\ netCalls' = netCalls + 1
    /\ pc' = "awaiting"
    /\ UNCHANGED <<op, reqType, config, provider, tabs, guidance, prompt, candidate, response,
                   jsonStr, outcome, gi, browserGroups, reply, uiStatus>>
    /\ UNCHANGED browserSide
    /\ UNCHANGED callSide
    /\ UNCHANGED pageSide

\* the call is handed to the SDK or to fetch, unless reading the
\* configuration already throws
IssueRequest ==
    /\ \/ pc = "prompted"
       \/ pc = "created" /\ op = "testConnection"
    /\ IF IsThrow(beforeRequest(provider))
       THEN /\ outcome' = IF op = "testConnection"
                          THEN testConnectionResult(provider, NoResponse)
                          ELSE beforeRequest(provider)
            /\ pc' = "returned"
            /\ UNCHANGED netCalls
       ELSE /\ netCalls' = netCalls + 1
            /\ pc' = "awaiting"
            /\ UNCHANGED outcome
    /\ UNCHANGED <<op, reqType, config, provider, tabs, guidance, prompt, candidate, response,
                   jsonStr, gi, browserGroups, reply, uiStatus>>
    /\ UNCHANGED browserSide
    /\ UNCHANGED callSide
    /\ UNCHANGED pageSide

\* the backend fails
BackendFails(kind, e) ==
    /\ pc = "awaiting"
    /\ response' = <<kind, e>>
    /\ pc' = "responded"
    /\ UNCHANGED <<op, reqType, config, provider, tabs, guidance, prompt, netCalls, candidate,
                   jsonStr, outcome, gi, browserGroups, reply, uiStatus>>
    /\ UNCHANGED browserSide
    /\ UNCHANGED callSide
    /\ UNCHANGED pageSide

\* the backend answers with text that wraps a JSON value
BackendAnswers(v, w) ==
    /\ pc = "awaiting"
    /\ op # "testConnection"
    /\ candidate' = Candidate(v, w)
    /\ response' = <<"text", Wrap(w, Stringify(v))>>
    /\ pc' = "responded"
    /\ UNCHANGED <<op, reqType, config, provider, tabs, guidance, prompt, netCalls, jsonStr,
                   outcome, gi, browserGroups, reply, uiStatus>>
    /\ UNCHANGED browserSide
    /\ UNCHANGED callSide
    /\ UNCHANGED pageSide

\* the backend answers with text that holds no JSON
BackendTalks(t) ==
    /\ pc = "awaiting"
    /\ response' = <<"text", t>>
    /\ pc' = "responded"
    /\ UNCHANGED <<op, reqType, config, provider, tabs, guidance, prompt, netCalls, candidate,
                   jsonStr, outcome, gi, browserGroups, reply, uiStatus>>
    /\ UNCHANGED browserSide
    /\ UNCHANGED callSide
    /\ UNCHANGED pageSide

\* the awaited call settles and the provider method runs to its end
Complete(withText) ==
    /\ pc = "responded"
    /\ outcome' = CASE op = "categorize" -> categorizeResult(provider, response, withText)
                    [] op = "cleanTabs" -> cleanTabsResult(provider, response, tabs, withText)
                    [] OTHER -> testConnectionResult(provider, response)
    /\ jsonStr' = IF op # "testConnection" /\ ~Structured(provider.class)
                     /\ IsOk(callResult(provider, response))
                  THEN extractJSON(response[2]) ELSE jsonStr
    /\ pc' = "returned"
    /\ UNCHANGED <<op, reqType, config, provider, tabs, guidance, prompt, netCalls, candidate,
                   response, gi, browserGroups, reply, uiStatus>>
    /\ UNCHANGED browserSide
    /\ UNCHANGED callSide
    /\ UNCHANGED pageSide

\* the variant of cleanTabsWithAI that closes what the model named at once
Deliver_closing ==
    /\ pc = "returned"
    /\ op = "cleanTabs"
    /\ IsOk(outcome)
    /\ removed' = getTabIds(tabs, Get(outcome[2], "tabsToClose")[2])
    /\ reply' = cleanSuccess(outcome[2])
    /\ pc' = "replied"
    /\ UNCHANGED <<op, reqType, config, provider, tabs, guidance, prompt, netCalls, candidate,
                   response, jsonStr, outcome, gi, browserGroups, uiStatus, storage, window,
                   tabIndices>>
    /\ UNCHANGED callSide
    /\ UNCHANGED pageSide

\* the variant without the try block: a thrown error rejects the promise
\* the listener returned, and nothing is answered
Deliver_rethrow ==
    /\ pc = "returned"
    /\ op \in {"categorize", "cleanTabs"}
    /\ IF IsThrow(outcome)
       THEN /\ pc' = "replied"
            /\ UNCHANGED <<gi, reply>>
       ELSE IF op = "cleanTabs"
       THEN /\ reply' = cleanSuccess(outcome[2])
            /\ pc' = "replied"
            /\ UNCHANGED gi
       ELSE /\ pc' = "applying"
            /\ gi' = 1
            /\ UNCHANGED reply
    /\ UNCHANGED <<op, reqType, config, provider, tabs, guidance, prompt, netCalls, candidate,
                   response, jsonStr, outcome, browserGroups, uiStatus>>
    /\ UNCHANGED browserSide
    /\ UNCHANGED callSide
    /\ UNCHANGED pageSide

\* organizeTabsWithAI / cleanTabsWithAI after the provider call: the catch
\* block answers a failure; cleanTabs answers its preview; organizeTabs goes
\* on to applyGrouping
Deliver ==
    /\ pc = "returned"
    /\ op \in {"categorize", "cleanTabs"}
    /\ IF IsThrow(outcome)
       THEN /\ reply' = failureReply(outcome[2])
            /\ pc' = "replied"
            /\ UNCHANGED gi
       ELSE IF op = "cleanTabs"
       THEN /\ reply' = cleanSuccess(outcome[2])
            /\ pc' = "replied"
            /\ UNCHANGED gi
       ELSE /\ pc' = "applying"
            /\ gi' = 1
            /\ UNCHANGED reply
    /\ UNCHANGED <<op, reqType, config, provider, tabs, guidance, prompt, netCalls, candidate,
                   response, jsonStr, outcome, browserGroups, uiStatus>>
    /\ UNCHANGED browserSide
    /\ UNCHANGED callSide
    /\ UNCHANGED pageSide

GroupsOf(grouping) == Get(grouping, "groups")[2]

\* tabGroups.update takes a title string and one of the browser's colors
BrowserAccepts(group) ==
    /\ IsString(Get(group, "name"))
    /\ IsString(Get(group, "color")) /\ Get(group, "color")[2] \in tabGroupColorSchema

\* one round of the loop of applyGrouping: tabs.group, then tabGroups.update;
\* either call may be rejected by the browser
ApplyGroup(how) ==
    /\ pc = "applying"
    /\ gi <= Len(GroupsOf(outcome[2]))
    /\ LET group == GroupsOf(outcome[2])[gi]
           tabIds == getTabIds(tabs, Get(group, "tabIndices")[2])
       IN IF tabIds = <<>>
          THEN /\ how = "skip"
               /\ gi' = gi + 1
               /\ UNCHANGED <<pc, browserGroups, reply>>
          ELSE \/ /\ how = "ok"
                  /\ BrowserAccepts(group)
                  /\ browserGroups' = Append(browserGroups,
                         [tabIds |-> tabIds, title |-> Get(group, "name"),
                          color |-> Get(group, "color"), updated |-> TRUE])
                  /\ gi' = gi + 1
                  /\ UNCHANGED <<pc, reply>>
               \/ /\ how = "groupFails"
                  /\ reply' = failureReply(Err("Error", <<Lit("Invalid tab ID")>>))
                  /\ pc' = "replied"
                  /\ UNCHANGED <<gi, browserGroups>>
               \/ /\ how = "updateFails"
                  /\ browserGroups' = Append(browserGroups,
                         [tabIds |-> tabIds, title |-> Undef, color |-> Undef,
                          updated |-> FALSE])
                  /\ reply' = failureReply(Err("Error", <<Lit("Invalid tab group update")>>))
                  /\ pc' = "replied"
                  /\ UNCHANGED gi
    /\ UNCHANGED <<op, reqType, config, provider, tabs, guidance, prompt, netCalls, candidate,
                   response, jsonStr, outcome, uiStatus>>
    /\ UNCHANGED browserSide
    /\ UNCHANGED callSide
    /\ UNCHANGED pageSide

\* the loop is over: organizeTabsWithAI answers success
ApplyDone ==
    /\ pc = "applying"
    /\ gi > Len(GroupsOf(outcome[2]))
    /\ reply' = organizeSuccess(tabs, outcome[2])
    /\ pc' = "replied"
    /\ UNCHANGED <<op, reqType, config, provider, tabs, guidance, prompt, netCalls, candidate,
                   response, jsonStr, outcome, gi, browserGroups, uiStatus>>
    /\ UNCHANGED browserSide
    /\ UNCHANGED callSide
    /\ UNCHANGED pageSide

\* the popup shows the answer
PopupShow ==
    /\ pc = "replied"
    /\ uiStatus' = popupStatus(op, reply)
    /\ pc' = "done"
    /\ UNCHANGED <<op, reqType, config, provider, tabs, guidance, prompt, netCalls, candidate,
                   response, jsonStr, outcome, gi, browserGroups, reply>>
    /\ UNCHANGED browserSide
    /\ UNCHANGED callSide
    /\ UNCHANGED pageSide

\* the options page shows the result of the test
OptionsShow ==
    /\ pc = "returned"
    /\ op = "testConnection"
    /\ uiStatus' = optionsStatus(outcome)
    /\ pc' = "done"
    /\ UNCHANGED <<op, reqType, config, provider, tabs, guidance, prompt, netCalls, candidate,
                   response, jsonStr, outcome, gi, browserGroups, reply>>
    /\ UNCHANGED browserSide
    /\ UNCHANGED callSide
    /\ UNCHANGED pageSide

Next ==
    \/ \E o \in {"categorize", "cleanTabs"}, st \in Storages, win \in Windows,
          g \in Guidances : Receive(o, st, win, g)
    \/ \E indices \in CloseRequests, win \in Windows \cup MixedWindows :
          ReceiveConfirm(indices, win)
    \/ \E how \in {"ok", "storageFails", "queryFails"} : Load(how)
    \/ \E msg \in Messages : ReceiveUnknown(msg)
    \/ \E how \in {"none", "ok", "removeFails", "queryFails"} : ConfirmClose(how)
    \/ \E type \in ProviderTypes : \E cfg \in ConfigsOf(type) : ReceiveTest(type, cfg)
    \/ Create
    \/ BuildPrompt
    \/ IssueRequest
    \/ \E kind \in {"error", "status"}, e \in BackendErrors : BackendFails(kind, e)
    \/ BackendFails("unexpected", "")
    \/ \E v \in (IF op = "cleanTabs" THEN GoodCleans ELSE GoodGroupings),
          w \in Wraps : BackendAnswers(v, w)
    \/ \E v \in (IF op = "cleanTabs" THEN OddCleans ELSE OddGroupings),
          w \in OddWraps : BackendAnswers(v, w)
    \/ \E t \in PlainTexts : BackendTalks(t)
    \/ \E withText \in BOOLEAN : Complete(withText)
    \/ Deliver
    \/ \E how \in {"skip", "ok", "groupFails", "updateFails"} : ApplyGroup(how)
    \/ ApplyDone
    \/ PopupShow
    \/ OptionsShow
    \/ Again

Spec == Init /\ [][Next]_vars

\* ------------------------------------- invocations sharing provider instances
\* One message is handled at a time above; here callers invoke the methods
\* of the same instances while earlier invocations are still awaiting.
messageSide == <<pc, op, reqType, config, provider, tabs, guidance, prompt, netCalls, candidate,
                 response, jsonStr, outcome, gi, browserGroups, reply, uiStatus, storage,
                 window, tabIndices, removed, message, popup, requests, dup>>

\* new provider.class(config): the only write to this._config
Constructed ==
    <<createProvider("claude", "key")[2], createProvider("gemini", "key")[2]>>

IdleCall ==
    [pc |-> "idle", op |-> "none", inst |-> 1, tabs |-> <<>>, guidance |-> "",
     prompt |-> NoPrompt, builtAt |-> 0, answer |-> NoResponse, text |-> NoResponse,
     outcome |-> NoOutcome]

AllTabs == [k \in 1..MaxTabs |-> TabAt(k)]

\* what callers ask for
CallInputs ==
    {[op |-> "categorize", inst |-> 1, tabs |-> AllTabs, guidance |-> "finance"],
     [op |-> "categorize", inst |-> 2, tabs |-> AllTabs, guidance |-> "finance"],
     [op |-> "cleanTabs", inst |-> 1, tabs |-> AllTabs, guidance |-> "finance"],
     [op |-> "testConnection", inst |-> 2, tabs |-> <<>>, guidance |-> ""]}

\* what the backend may answer to a request of that kind
CallAnswers(o) ==
    CASE o = "categorize" ->
            {<<"status", "401 Unauthorized">>,
             <<"text", Stringify(Grouping(<<GFinance>>, <<Num(1)>>))>>}
      [] o = "cleanTabs" ->
            {<<"text", <<Word("Sorry")>>>>,
             <<"text", Stringify(Clean(<<Num(0)>>, Str("stale")))>>}
      [] OTHER -> {<<"error", "timeout">>, <<"text", <<Word("Hi")>>>>}

\* what the method makes of the text it awaited
methodResult(inst, c, text, withText) ==
    CASE c.op = "categorize" -> categorizeResult(inst, text, withText)
      [] c.op = "cleanTabs" -> cleanTabsResult(inst, text, c.tabs, withText)
      [] OTHER -> testConnectionResult(inst, text)

InitCalls ==
    /\ NoMessage
    /\ instances = Constructed
    /\ calls = [i \in 1..MaxCalls |-> IdleCall]
    /\ now = 0

\* a caller invokes categorize, cleanTabs or testConnection
Invoke(i, in) ==
    /\ calls[i].pc = "idle"
    /\ calls' = [calls EXCEPT ![i] = [@ EXCEPT !.pc = "called", !.op = in.op, !.inst = in.inst,
                                                !.tabs = in.tabs, !.guidance = in.guidance]]
    /\ UNCHANGED <<instances, now>>
    /\ UNCHANGED messageSide

\* the variant whose prompt builder stamps the system text with the time
Build_stamped(i) ==
    /\ calls[i].pc = "called"
    /\ calls[i].op \in {"categorize", "cleanTabs"}
    /\ calls' = [calls EXCEPT ![i] =
                    [@ EXCEPT !.pc = "built", !.builtAt = now,
                              !.prompt = [system |-> <<<<"n", now>>>>
                                             \o buildPrompt(calls[i].tabs,
                                                            calls[i].guidance).system,
                                          user |-> tabBlocks(calls[i].tabs)]]]
    /\ now' = now + 1
    /\ UNCHANGED instances
    /\ UNCHANGED messageSide

\* const prompt = this.buildPrompt(tabs, userPrompt); the clock has moved on
\* by the time anyone reads it again
Build(i) ==
    /\ calls[i].pc = "called"
    /\ calls[i].op \in {"categorize", "cleanTabs"}
    /\ calls' = [calls EXCEPT ![i] =
                    [@ EXCEPT !.pc = "built", !.builtAt = now,
                              !.prompt = IF calls[i].op = "categorize"
                                         THEN buildPrompt(calls[i].tabs, calls[i].guidance)
                                         ELSE buildCleanPrompt(calls[i].tabs, calls[i].guidance)]]
    /\ now' = now + 1
    /\ UNCHANGED instances
    /\ UNCHANGED messageSide

\* this.getModel() reads this._config, and the request leaves
Issue(i) ==
    /\ \/ calls[i].pc = "built"
       \/ calls[i].pc = "called" /\ calls[i].op = "testConnection"
    /\ IsOk(beforeRequest(instances[calls[i].inst]))
    /\ calls' = [calls EXCEPT ![i].pc = "awaiting"]
    /\ UNCHANGED <<instances, now>>
    /\ UNCHANGED messageSide

\* the variant that keeps the awaited text in a field of the instance, where
\* every invocation awaiting on that instance then finds it
Settle_shared(i, r, withText) ==
    /\ calls[i].pc = "awaiting"
    /\ calls' = [k \in 1..MaxCalls |->
                    IF k = i
                    THEN [calls[k] EXCEPT !.pc = "finished", !.answer = r, !.text = r,
                                          !.outcome = methodResult(instances[calls[k].inst],
                                                                   calls[k], r, withText)]
                    ELSE IF calls[k].pc = "awaiting" /\ calls[k].inst = calls[i].inst
                    THEN [calls[k] EXCEPT !.pc = "finished", !.text = r,
                                          !.outcome = methodResult(instances[calls[k].inst],
                                                                   calls[k], r, withText)]
                    ELSE calls[k]]
    /\ UNCHANGED <<instances, now>>
    /\ UNCHANGED messageSide

\* the awaited request of invocation i settles with the backend's answer r,
\* which the method keeps in a local and works on until it returns
Settle(i, r, withText) ==
    /\ calls[i].pc = "awaiting"
    /\ calls' = [calls EXCEPT ![i] =
                    [@ EXCEPT !.pc = "finished", !.answer = r, !.text = r,
                              !.outcome = methodResult(instances[calls[i].inst], calls[i], r,
                                                       withText)]]
    /\ UNCHANGED <<instances, now>>
    /\ UNCHANGED messageSide

NextCalls ==
    \/ \E i \in 1..MaxCalls, in \in CallInputs : Invoke(i, in)
    \/ \E i \in 1..MaxCalls : Build(i)
    \/ \E i \in 1..MaxCalls : Issue(i)
    \/ \E i \in 1..MaxCalls : \E r \in CallAnswers(calls[i].op), withText \in BOOLEAN :
          Settle(i, r, withText)

SpecCalls == InitCalls /\ [][NextCalls]_vars

\* ------------------------------------------------------------ properties
FreeText == provider.class \in {"BedrockProvider", "ClaudeProvider", "OpenAIProvider"}

\* the provider call has returned or thrown
Returned == pc \in {"returned", "applying", "replied", "done"} /\ outcome # NoOutcome

\* the backend answered with text that reached extraction / the schema
AnsweredText == response[1] = "text" /\ IsOk(callResult(provider, response))

\* the answer is the JSON value itself, with nothing around it
RawAnswer == AnsweredText /\ candidate.has /\ candidate.wrap = "raw"

HasPart(msg, part) == \E j \in 1..Len(msg) : msg[j] = part
HasParts(msg, sub) == \A i \in 1..Len(sub) : HasPart(msg, sub[i])

\* --- C1 ---
LacksTopField(c) == Get(c, "groups") = Undef \/ Get(c, "ungrouped") = Undef
BadGroup(g) ==
    \/ Get(g, "name") = Undef
    \/ Get(g, "color") = Undef
    \/ Get(g, "tabIndices") = Undef
    \/ ~(IsString(Get(g, "color")) /\ Get(g, "color")[2] \in tabGroupColorSchema)
C1_Invalid(c) ==
    /\ IsObj(c)
    /\ \/ LacksTopField(c)
       \/ /\ IsArray(Get(c, "groups"))
          /\ \E i \in 1..Len(Get(c, "groups")[2]) :
                IsObj(Get(c, "groups")[2][i]) /\ BadGroup(Get(c, "groups")[2][i])

\* C1: a candidate grouping that lacks groups or ungrouped, or holds a group
\* without name, color or tabIndices, or a group whose color is none of the
\* eight allowed, is rejected: categorize fails and returns no GroupingResult.
C1_RejectsInvalid ==
    (Returned /\ op = "categorize" /\ RawAnswer /\ C1_Invalid(candidate.value))
        => IsThrow(outcome)

\* --- C2 ---
IntArray(v) == IsArray(v) /\ \A i \in 1..Len(v[2]) : v[2][i][1] = "num"
C2_ValidGroup(g) ==
    /\ IsObj(g)
    /\ IsString(Get(g, "name")) /\ Get(g, "name")[2] # ""
    /\ IsString(Get(g, "color")) /\ Get(g, "color")[2] \in tabGroupColorSchema
    /\ IntArray(Get(g, "tabIndices"))
    /\ (Get(g, "reasoning") = Undef \/ IsString(Get(g, "reasoning")))
C2_Valid(c) ==
    /\ IsObj(c)
    /\ IsArray(Get(c, "groups"))
    /\ \A i \in 1..Len(Get(c, "groups")[2]) : C2_ValidGroup(Get(c, "groups")[2][i])
    /\ IntArray(Get(c, "ungrouped"))
C2_Wraps == {"raw", "spaced", "fenced", "prose"}
C2_Case ==
    /\ Returned /\ op = "categorize" /\ FreeText /\ AnsweredText
    /\ candidate.has /\ candidate.wrap \in C2_Wraps /\ C2_Valid(candidate.value)

\* C2: a response that carries one structurally valid grouping object (raw,
\* in a fenced json block after prose, or inside prose without other braces)
\* is parsed into a GroupingResult equal to that object, nothing repaired,
\* clamped, deduplicated or reordered.
C2_RoundTrip == C2_Case => outcome = Ok(candidate.value)

C2_Witness ==
    /\ C2_Case
    /\ candidate.wrap = "prose"
    /\ candidate.value = Grouping(<<GFinance, GFood>>, <<Num(1)>>)
    /\ outcome = Ok(candidate.value)

\* --- C3 ---
\* C3: the structured-output path and the free-text path accept the same
\* candidates: an answer is accepted by the path that handled it exactly if
\* the validation of the other path accepts it, for groupings and for clean
\* results.
C3_SameAcceptance ==
    (Returned /\ op \in {"categorize", "cleanTabs"} /\ RawAnswer)
        => (IsOk(outcome) <=>
              IF op = "categorize"
              THEN IF Structured(provider.class)
                   THEN IsOk(validateGrouping(candidate.value))
                   ELSE groupingResultSchema(candidate.value)
              ELSE IF Structured(provider.class)
                   THEN IsOk(validateCleanResult(candidate.value))
                   ELSE cleanResultSchema(candidate.value))

\* --- C4 ---
\* the closing brace that matches the opening brace at b, or 0
MatchClose(t, b) ==
    LET depth[i \in b..Len(t)] ==
          (IF i = b THEN 0 ELSE depth[i - 1])
          + (IF t[i] = P("{") THEN 1 ELSE IF t[i] = P("}") THEN -1 ELSE 0)
        closes == {e \in b..Len(t) : depth[e] = 0}
    IN IF closes = {} THEN 0 ELSE SetMin(closes)

C4_Claimed(t) ==
    IF FenceStarts(t) # {}
    THEN LET b == FenceOpen(t, SetMin(FenceStarts(t)))
         IN SubSeq(t, b, SetMin(FenceCloses(t, b)))
    ELSE IF OpenBraces(t) # {} /\ MatchClose(t, SetMin(OpenBraces(t))) # 0
    THEN SubSeq(t, SetMin(OpenBraces(t)), MatchClose(t, SetMin(OpenBraces(t))))
    ELSE Trim(t)

\* C4: extraction uses the JSON of a fenced block if there is one, otherwise
\* the span from the first opening brace to its matching closing brace,
\* otherwise the trimmed text.
C4_Priority ==
    (Returned /\ op \in {"categorize", "cleanTabs"} /\ FreeText /\ AnsweredText)
        => jsonStr = C4_Claimed(response[2])

\* --- C5 ---
Detail(title, url) == Obj(<<<<"title", Str(title)>>, <<"url", Str(url)>>>>)
IntInRange(idx) == idx[1] = "num" /\ idx[2] >= 0 /\ idx[2] < Len(tabs)
C5_Case == Returned /\ op = "cleanTabs" /\ AnsweredText /\ IsOk(outcome)
ClosedIdx == Get(outcome[2], "tabsToClose")[2]
Details == Get(outcome[2], "tabDetails")

C5_WitnessOutOfRange ==
    /\ C5_Case
    /\ ClosedIdx = <<Num(7)>>
    /\ Details = Arr(<<Detail("Unknown", "")>>)

\* --- C6 ---
C6_Valid(c) ==
    IsObj(c) /\ IntArray(Get(c, "tabsToClose")) /\ IsString(Get(c, "reasoning"))

\* C6: clean-result validation fails unless tabsToClose is a sequence of
\* integers and reasoning is a string; a failing candidate yields no
\* CleanResult.
C6_RejectsInvalid ==
    (Returned /\ op = "cleanTabs" /\ RawAnswer /\ ~C6_Valid(candidate.value))
        => IsThrow(outcome)

\* --- C7 ---
C7_Case == op = "testConnection" /\ provider # NoProvider /\ pc \in {"returned", "done"}

\* C7: testConnection never throws: it resolves to false when the model
\* cannot be built or the backend call fails, and to true only when the
\* request was made and completed without error.
C7_NeverThrows ==
    C7_Case =>
        /\ outcome \in {Ok(<<"bool", TRUE>>), Ok(<<"bool", FALSE>>)}
        /\ outcome = Ok(<<"bool", TRUE>>) => (netCalls = 1 /\ response[1] = "text")
        /\ response[1] \in {"error", "status", "unexpected"} => outcome = Ok(<<"bool", FALSE>>)
        /\ provider.config = "absent" => (outcome = Ok(<<"bool", FALSE>>) /\ netCalls = 0)

C7_Witness ==
    /\ C7_Case
    /\ pc = "done"
    /\ response = <<"status", "401 Unauthorized">>
    /\ outcome = Ok(<<"bool", FALSE>>)

\* --- C8 ---
\* createProvider has been called with reqType and config
CreateCalled ==
    /\ pc \notin {"idle", "received", "loaded"}
    /\ \/ op = "testConnection"
       \/ /\ op \in {"categorize", "cleanTabs"}
          /\ IsOk(loadProviderConfig(storage))
          /\ tabs # <<>>

UnknownProviderType(type) == Err("Error", <<Lit("Unknown provider: "), Lit(type)>>)

\* C8: createProvider fails with UnknownProviderType, builds no provider and
\* makes no request for every identifier that is not registered, and returns
\* an instance of the registered class otherwise.
C8_UnknownRejected ==
    CreateCalled =>
        IF reqType \in DOMAIN PROVIDERS
        THEN provider.class = PROVIDERS[reqType]
        ELSE /\ provider = NoProvider
             /\ netCalls = 0
             /\ outcome = Throw(UnknownProviderType(reqType))

\* --- C9 ---
BackendFailed == response[1] \in {"error", "status", "unexpected"}

\* the answer fails JSON extraction or the validation of the path it took
FailsValidation ==
    /\ AnsweredText
    /\ LET parsed == JSONParse(IF Structured(provider.class) THEN response[2]
                               ELSE extractJSON(response[2]))
       IN IF Structured(provider.class)
          THEN ~(parsed.ok
                 /\ IF op = "categorize" THEN groupingResultSchema(parsed.v)
                    ELSE cleanResultSchema(parsed.v))
          ELSE \/ ~parsed.ok
               \/ IsThrow(IF op = "categorize" THEN validateGrouping(parsed.v)
                          ELSE validateCleanResult(parsed.v))

\* C9: a failed backend call or a response that fails extraction or
\* validation ends the invocation in a failure, and the failure answered by
\* the background handler and shown in the popup still holds the text of
\* the original error.
C9_NotSwallowed ==
    op \in {"categorize", "cleanTabs"} =>
        /\ (pc = "returned" /\ outcome # NoOutcome /\ provider # NoProvider
               /\ ~IsThrow(outcome))
              => ~(BackendFailed \/ FailsValidation)
        /\ (Returned /\ response[1] \in {"error", "status"})
              => (IsThrow(outcome) /\ HasPart(outcome[2].msg, Lit(response[2])))
        /\ (pc \in {"replied", "done"} /\ IsThrow(outcome))
              => (reply.sent /\ ~reply.success /\ HasParts(reply.error, outcome[2].msg))
        /\ (pc = "done" /\ IsThrow(outcome)) => HasParts(uiStatus, outcome[2].msg)

C9_Witness ==
    /\ pc = "done"
    /\ op = "cleanTabs"
    /\ response = <<"status", "401 Unauthorized">>
    /\ ~reply.success
    /\ HasPart(uiStatus, Lit("401 Unauthorized"))

\* --- C10 ---
\* C10: a failure raised because the response is malformed carries an
\* excerpt of the raw response of at most 200 characters.
C10_BoundedExcerpt ==
    (Returned /\ op \in {"categorize", "cleanTabs"} /\ AnsweredText /\ IsThrow(outcome))
        => \E j \in 1..Len(outcome[2].msg) :
              /\ outcome[2].msg[j][1] = "resp"
              /\ outcome[2].msg[j][2] <= EXCERPT_LEN
              /\ outcome[2].msg[j][2] = Min(CharLen(response[2]), EXCERPT_LEN)

\* --- C11 ---
\* the backend answered, and what it answered is empty or only whitespace
EmptyPayload == response[1] = "text" /\ Trim(response[2]) = <<>>

\* how the failure of a malformed but present text begins
MalformedDiagnostics ==
    {Lit("Failed to parse LLM response: "),
     Lit("No object generated: response did not match schema.")}

\* C11: an empty or whitespace-only payload makes categorize and cleanTabs
\* fail, on every provider, with a failure whose diagnostic message is not the
\* one of a malformed response.
C11_EmptyDistinct ==
    (Returned /\ op \in {"categorize", "cleanTabs"} /\ provider # NoProvider /\ EmptyPayload)
        => (IsThrow(outcome) /\ outcome[2].msg[1] \notin MalformedDiagnostics)

\* --- C12 ---
\* the stored configuration of the selected provider is missing, or a field
\* its ConfigSchema requires is empty
Unconfigured ==
    \/ ~storage.hasConfigs
    \/ storage.selectedProvider[2] \notin DOMAIN storage.providerConfigs
    \/ storage.providerConfigs[storage.selectedProvider[2]] = "nokey"

Handled == op \in {"categorize", "cleanTabs"} /\ pc \notin {"idle", "received"}

\* C12: with no configuration stored for the selected provider, or with a
\* required field of it empty, organizeTabs and cleanTabs fail and no backend
\* request is issued.
C12_ConfigurationError ==
    (Handled /\ Truthy(storage.selectedProvider) /\ Unconfigured)
        => /\ netCalls = 0
           /\ pc \in {"replied", "done"} => ~reply.success

\* --- C13 ---
\* C13: when the stored provider identifier matches no registry entry,
\* organizeTabs and cleanTabs answer a failure, and no provider is
\* constructed or invoked in its place.
C13_NoSilentDefault ==
    (Handled /\ storage.selectedProvider # Undef
             /\ storage.selectedProvider[2] \notin DOMAIN PROVIDERS)
        => /\ provider = NoProvider
           /\ netCalls = 0
           /\ pc \in {"replied", "done"} => (~reply.success /\ reply.error # <<>>)

\* --- C14 ---
\* C14: a cleanTabs request with empty guidance is rejected and no backend
\* request is issued for it.
C14_GuidanceRequired ==
    (op = "cleanTabs" /\ guidance = "" /\ pc \notin {"idle", "received"})
        => /\ netCalls = 0
           /\ pc \in {"replied", "done"} => ~reply.success

\* --- C15 ---
ProviderCall == op \in {"categorize", "cleanTabs"} /\ provider # NoProvider

\* C15: within one categorize or cleanTabs invocation at most one request is
\* handed to the backend, and only once the prompt for these tabs is built;
\* nothing is returned while the request is pending; a returned invocation
\* has made exactly one request, and a result is returned only for a
\* response that passed extraction and validation.
C15_Order ==
    ProviderCall =>
        /\ netCalls \in {0, 1}
        /\ netCalls = 1 => (prompt # NoPrompt /\ Len(prompt.user) = Len(tabs))
        /\ pc \in {"created", "prompted", "awaiting", "responded"}
              => (outcome = NoOutcome /\ ~reply.sent)
        /\ pc \in {"created", "prompted"} => netCalls = 0
        /\ Returned => netCalls = 1
        /\ (Returned /\ IsOk(outcome)) => AnsweredText
        /\ (pc = "returned" /\ IsOk(outcome)) => ~FailsValidation

C15_Witness ==
    /\ ProviderCall
    /\ pc = "returned"
    /\ IsOk(outcome)
    /\ netCalls = 1
    /\ candidate.wrap = "fenced"
    /\ Len(prompt.user) = 2

\* --- C17 ---
\* the position in the input of the tab whose block carries label n (0: none)
ShownUnder(n) ==
    IF \E i \in 1..Len(prompt.user) : prompt.user[i][1] = n
    THEN CHOOSE i \in 1..Len(prompt.user) : prompt.user[i][1] = n
    ELSE 0

\* the ids of the tabs shown under the labels a model returned, in order
IdsShownUnder(indices) ==
    LET F[k \in 0..Len(indices)] ==
          IF k = 0 THEN <<>>
          ELSE IF ShownUnder(IndexOf(indices[k])) # 0
          THEN Append(F[k - 1], tabs[ShownUnder(IndexOf(indices[k]))].id)
          ELSE F[k - 1]
    IN F[Len(indices)]

\* C17: the user text holds one block per input tab, in input order, labelled
\* with the tab's 0-based position; the tabs grouped for a returned index and
\* the details listed for a tab to close are those of the tab shown under
\* that label.
C17_Labels ==
    (ProviderCall /\ prompt # NoPrompt) =>
        /\ Len(prompt.user) = Len(tabs)
        /\ \A i \in 1..Len(tabs) : prompt.user[i] = <<i - 1, tabs[i].title, tabs[i].url>>
        /\ \A k \in 1..Len(browserGroups) :
              \E j \in 1..Len(GroupsOf(outcome[2])) :
                  browserGroups[k].tabIds =
                      IdsShownUnder(Get(GroupsOf(outcome[2])[j], "tabIndices")[2])
        /\ (op = "cleanTabs" /\ Returned /\ IsOk(outcome)) =>
              \A i \in 1..Len(ClosedIdx) :
                  Details[2][i] =
                      IF ShownUnder(IndexOf(ClosedIdx[i])) # 0
                      THEN Detail(prompt.user[ShownUnder(IndexOf(ClosedIdx[i]))][2],
                                  prompt.user[ShownUnder(IndexOf(ClosedIdx[i]))][3])
                      ELSE Detail("Unknown", "")

C17_Witness ==
    /\ op = "categorize"
    /\ Len(browserGroups) = 1
    /\ browserGroups[1].tabIds = <<12, 11>>
    /\ prompt.user[2][1] = 1
    /\ tabs[2].index = 2
    /\ tabs[2].id = 12

\* --- C19 ---
\* the provider method is running (from construction to its return)
InProvider == pc \in {"created", "prompted", "awaiting", "responded"}

\* C19: browser.tabs.remove is invoked only by the handler of a
\* confirmCloseTabs message; the handling of a cleanTabs message, and every
\* step of the provider layer, leaves the window, its tab groups and the
\* removed tabs as they are.
C19_CloseOnConfirm ==
    [][ /\ (removed' # removed /\ removed' # <<>>)
            => (op = "confirmCloseTabs" /\ pc = "received")
        /\ (op = "cleanTabs" /\ op' = "cleanTabs")
            => (window' = window /\ browserGroups' = browserGroups /\ removed' = removed)
        /\ InProvider
            => (window' = window /\ browserGroups' = browserGroups /\ removed' = removed)
      ]_vars

C19_Witness ==
    /\ op = "confirmCloseTabs"
    /\ pc = "done"
    /\ removed = <<12, 11>>
    /\ Len(window) = 1
    /\ reply.success

\* --- C20 ---
\* no tab of the window is organizable
NoOrganizable ==
    \A i \in 1..Len(window) :
        \/ window[i].pinned
        \/ window[i].id = Undef
        \/ window[i].url = Undef
        \/ window[i].scheme \in {"about:", "moz-extension:"}

\* C20: with no organizable tab in the window, organizeTabs and cleanTabs
\* answer success: false, construct no provider and issue no request; a
\* provider is never invoked with an empty tab sequence.
C20_EmptyWindow ==
    /\ (Handled /\ NoOrganizable) =>
          /\ provider = NoProvider
          /\ netCalls = 0
          /\ pc \in {"returned", "replied", "done"}
          /\ pc \in {"replied", "done"} => (reply.sent /\ ~reply.success)
    /\ ProviderCall => tabs # <<>>

C20_Witness ==
    /\ op = "cleanTabs"
    /\ pc = "done"
    /\ NoOrganizable
    /\ IsOk(loadProviderConfig(storage))
    /\ provider = NoProvider
    /\ reply.error = <<Lit("No tabs to clean (only pinned or special tabs found)")>>

\* --- C16 ---
\* what invocation c returns when it runs alone on a freshly constructed
\* instance and the backend answers what it answered to c
\* (withText: how the SDK words a failure of its own)
AloneOutcome(c, withText) ==
    CASE c.op = "categorize" -> categorizeResult(Constructed[c.inst], c.answer, withText)
      [] c.op = "cleanTabs" ->
            cleanTabsResult(Constructed[c.inst], c.answer, c.tabs, withText)
      [] OTHER -> testConnectionResult(Constructed[c.inst], c.answer)

Excluded(tab) ==
    \/ tab.pinned
    \/ tab.id = Undef
    \/ tab.url = Undef
    \/ tab.scheme \in {"about:", "moz-extension:"}

\* the window positions of the tabs that are not excluded
KeptAt(win) == {j \in 1..Len(win) : ~Excluded(win[j])}

\* the i-th of them, counted from the left
NthKept(win, i) ==
    CHOOSE j \in KeptAt(win) : Cardinality({k \in KeptAt(win) : k < j}) = i - 1

\* a browser call of the handler's own was rejected
BrowserFailed ==
    \/ IsThrow(outcome) /\ outcome[2] \in {StorageFailure, QueryFailure}
    \/ reply = failureReply(QueryFailure)

\* the handler has queried the window and the window is still as queried
Queried ==
    \/ /\ op \in {"categorize", "cleanTabs"}
       /\ pc \notin {"idle", "received"}
       /\ IsOk(loadProviderConfig(storage))
       /\ ~BrowserFailed
    \/ /\ op = "confirmCloseTabs"
       /\ pc \in {"replied", "done"}
       /\ removed = <<>>
       /\ ~BrowserFailed

\* C21: the tabs kept by getOrganizableTabs are, in window order, exactly
\* the tabs that are not pinned, have an id and a URL and are neither about:
\* nor moz-extension: pages; the prompt labels these tabs only, and every id
\* grouped or closed is the id of one of them.
C21_Exact ==
    Queried =>
        /\ Len(tabs) = Cardinality(KeptAt(window))
        /\ \A i \in 1..Len(tabs) :
              /\ tabs[i].id = window[NthKept(window, i)].id[2]
              /\ tabs[i].url = window[NthKept(window, i)].url[2]
        /\ prompt # NoPrompt => Len(prompt.user) = Len(tabs)
        /\ \A g \in 1..Len(browserGroups) : \A k \in 1..Len(browserGroups[g].tabIds) :
              \E j \in KeptAt(window) : window[j].id[2] = browserGroups[g].tabIds[k]

\* ordinary tabs standing in reverse between a tab without URL and an
\* extension page come out in window order
C21_Witness ==
    /\ op = "confirmCloseTabs"
    /\ pc = "replied"
    /\ Len(window) = 4
    /\ Excluded(window[1]) /\ Excluded(window[3])
    /\ Len(tabs) = 2
    /\ tabs[1].id = 12 /\ tabs[2].id = 11

\* --- C22 ---
\* C22: a BedrockProvider whose configuration holds neither a bearer token
\* nor AWS credentials sends no request: categorize fails with the
\* 'No authentication configured' error and testConnection resolves to false.
C22_AuthOrder ==
    (provider # NoProvider /\ provider.class = "BedrockProvider"
     /\ provider.config = "empty") =>
        /\ netCalls = 0
        /\ (op = "categorize" /\ Returned) =>
              /\ IsThrow(outcome)
              /\ HasPart(outcome[2].msg,
                         Lit("No authentication configured. Provide either bearer token or AWS credentials."))
        /\ (op = "testConnection" /\ Returned) => outcome = Ok(<<"bool", FALSE>>)

\* --- C25 ---
\* the i-th element of a set of positions, counted from the smallest
NthOf(S, i) == CHOOSE j \in S : Cardinality({k \in S : k < j}) = i - 1

\* the places of a group's index list that name a tab of the snapshot
InRangeAt(indices) ==
    {k \in 1..Len(indices) :
        indices[k][1] = "num" /\ indices[k][2] >= 0 /\ indices[k][2] < Len(tabs)}

\* a browser group holds exactly the tabs these places name, in listed order
HoldsTabsOf(entry, indices) ==
    /\ Len(entry.tabIds) = Cardinality(InRangeAt(indices))
    /\ \A i \in 1..Len(entry.tabIds) :
          entry.tabIds[i] = tabs[indices[NthOf(InRangeAt(indices), i)][2] + 1].id

\* C25: applyGrouping handles the groups in result order; each group whose
\* indices name at least one tab of the snapshot gets one tabs.group call
\* with the ids of its in-range indices (listed order, repeats kept) and
\* then tabGroups.update with its name and color, before the next group is
\* started; a group that names no tab causes no browser call.
C25_InOrder ==
    (op = "categorize" /\ pc \in {"applying", "replied", "done"} /\ IsOk(outcome)) =>
        LET groups == GroupsOf(outcome[2])
            made == {g \in 1..(gi - 1) :
                        InRangeAt(Get(groups[g], "tabIndices")[2]) # {}}
            n == Cardinality(made)
        IN /\ Len(browserGroups) \in {n, n + 1}
           /\ \A i \in 1..n :
                 /\ HoldsTabsOf(browserGroups[i],
                                Get(groups[NthOf(made, i)], "tabIndices")[2])
                 /\ browserGroups[i].updated
                 /\ browserGroups[i].title = Get(groups[NthOf(made, i)], "name")
                 /\ browserGroups[i].color = Get(groups[NthOf(made, i)], "color")
           /\ Len(browserGroups) = n + 1 =>
                 /\ ~browserGroups[n + 1].updated
                 /\ gi <= Len(groups)
                 /\ HoldsTabsOf(browserGroups[n + 1], Get(groups[gi], "tabIndices")[2])
                 /\ reply.sent /\ ~reply.success

\* two groups made in order, the second from an index list with an
\* out-of-range index and a repeated one
C25_Witness ==
    /\ op = "categorize"
    /\ pc = "replied"
    /\ reply.success
    /\ Len(browserGroups) = 2
    /\ browserGroups[1].tabIds = <<11>>
    /\ browserGroups[2].tabIds = <<11, 11>>
    /\ Get(GroupsOf(outcome[2])[2], "tabIndices")[2] = <<Num(7), Num(0), Num(0)>>

\* --- C30 ---
\* C30: when organizeTabs answers success: false, the invocation has created
\* or modified no tab group.
C30_AllOrNothing ==
    (op = "categorize" /\ reply.sent /\ ~reply.success) => browserGroups = <<>>

\* --- C26 ---
\* C26: the listener always resolves with a {success, ...} object: what is
\* not an object with a recognized action is answered success: false,
\* "Unknown action"; an error thrown while a recognized message is handled
\* is answered success: false with the text of that error.
C26_AlwaysAnswers ==
    /\ (op \in {"categorize", "cleanTabs", "confirmCloseTabs", "unknown"}
        /\ pc \in {"replied", "done"})
          => (reply.sent /\ (reply.success \/ reply.error # <<>>))
    /\ op = "unknown" =>
          /\ reply = unknownReply
          /\ \/ message[1] # "obj"
             \/ Get(message, "action") \notin {Str("organizeTabs"), Str("cleanTabs"),
                                               Str("confirmCloseTabs")}
    /\ (op \in {"categorize", "cleanTabs"} /\ pc \in {"replied", "done"} /\ IsThrow(outcome))
          => (~reply.success /\ reply.error = ErrToString(outcome[2]))
    /\ message # Undef => op = "unknown"

\* a rejected storage read was answered with its text
C26_Witness ==
    /\ op = "cleanTabs"
    /\ pc = "done"
    /\ outcome = Throw(StorageFailure)
    /\ ~reply.success
    /\ HasPart(reply.error, Lit("storage unavailable"))

\* an object without action was answered "Unknown action"
C26_WitnessUnknown ==
    /\ op = "unknown"
    /\ message = Obj(<<<<"userPrompt", Str("finance")>>>>)
    /\ reply.error = <<Lit("Unknown action")>>


\* ------------------------- the duplicate finder (IMPLEMENTATION_PLAN_DUPLICATE_TABS.md)
DuplicateMatchStrategies ==
    {"exact-url", "url-no-hash", "url-no-query", "url-normalized", "domain-path",
     "domain-only", "title-exact", "title-normalized", "url-and-title"}

DuplicateKeepStrategies ==
    {"keep-first", "keep-last", "keep-newest", "keep-oldest", "keep-active", "keep-grouped"}

U1 == "https://a.com/p"
U2 == "https://a.com/p#h"
U3 == "https://a.com/p?q=1"
U4 == "https://b.org/p"
U5 == "https://docs.a.com/p"

\* new URL(url): the parts of the addresses the windows below hold; any other
\* text of the model ("bank.com", ...) has no scheme, and new URL throws
ParseURL(url) ==
    LET at(o, h, s, f) == [ok |-> TRUE, origin |-> o, hostname |-> h, pathname |-> "/p",
                           search |-> s, hash |-> f]
    IN CASE url = U1 -> at("https://a.com", "a.com", "", "")
         [] url = U2 -> at("https://a.com", "a.com", "", "#h")
         [] url = U3 -> at("https://a.com", "a.com", "?q=1", "")
         [] url = U4 -> at("https://b.org", "b.org", "", "")
         [] url = U5 -> at("https://docs.a.com", "docs.a.com", "", "")
         [] OTHER -> [ok |-> FALSE, origin |-> "", hostname |-> "", pathname |-> "",
                      search |-> "", hash |-> ""]

\* title.toLowerCase().trim(), for the titles the windows hold
LowerTrim(title) ==
    CASE title \in {"Doc", "doc "} -> "doc"
      [] title = "Other" -> "other"
      [] title = "Bank" -> "bank"
      [] title = "Recipe" -> "recipe"
      [] title = "Untitled" -> "untitled"
      [] OTHER -> title

\* hostname.endsWith(`.${domain}`)
EndsWithDot(hostname, domain) == hostname = "docs.a.com" /\ domain = "a.com"

normalizeTab(tab, strategy) ==
    LET url == ParseURL(tab.url)
    IN IF ~url.ok
       THEN IF strategy \in {"title-exact", "title-normalized", "url-and-title"}
            THEN tab.title ELSE tab.url
       ELSE CASE strategy = "exact-url" -> tab.url
              [] strategy = "url-no-hash" -> url.origin \o url.pathname \o url.search
              [] strategy = "url-no-query" -> url.origin \o url.pathname \o url.hash
              [] strategy = "url-normalized" -> url.origin \o url.pathname
              [] strategy = "domain-path" -> url.hostname \o url.pathname
              [] strategy = "domain-only" -> url.hostname
              [] strategy = "title-exact" -> tab.title
              [] strategy = "title-normalized" -> LowerTrim(tab.title)
              [] strategy = "url-and-title" ->
                     url.origin \o url.pathname \o "|" \o LowerTrim(tab.title)
              [] OTHER -> tab.url

\* keep-first and keep-last reduce over t.index, keep-newest and keep-oldest
\* over t.id, and each returns what it reduced over
selectTabToKeep(groupTabs, strategy) ==
    LET indices == {groupTabs[i].index : i \in 1..Len(groupTabs)}
        ids == {groupTabs[i].id : i \in 1..Len(groupTabs)}
        actives == {i \in 1..Len(groupTabs) : groupTabs[i].active}
        grouped == {i \in 1..Len(groupTabs) : groupTabs[i].groupId # -1}
    IN IF Len(groupTabs) = 0 THEN -1
       ELSE CASE strategy = "keep-first" -> SetMin(indices)
              [] strategy = "keep-last" -> SetMax(indices)
              [] strategy = "keep-active" ->
                     IF actives # {} THEN groupTabs[SetMin(actives)].index
                     ELSE groupTabs[1].index
              [] strategy = "keep-grouped" ->
                     IF grouped # {} THEN groupTabs[SetMin(grouped)].index
                     ELSE groupTabs[1].index
              [] strategy = "keep-newest" -> SetMax(ids)
              [] strategy = "keep-oldest" -> SetMin(ids)
              [] OTHER -> groupTabs[1].index

isWhitelisted(url, whitelist) ==
    /\ Len(whitelist) # 0
    /\ ParseURL(url).ok
    /\ \E i \in 1..Len(whitelist) :
          \/ ParseURL(url).hostname = whitelist[i]
          \/ EndsWithDot(ParseURL(url).hostname, whitelist[i])

\* duplicateGroups.flatMap((g) => g.tabsToClose)
RECURSIVE FlatToClose(_)
FlatToClose(groups) ==
    IF groups = <<>> THEN <<>> ELSE groups[1].tabsToClose \o FlatToClose(Tail(groups))

\* tabData.filter((t) => tabsToClose.includes(t.index)).map(title, url)
closingDetails(tabData, tabsToClose) ==
    LET closing(t) == \E i \in 1..Len(tabsToClose) : tabsToClose[i] = t.index
        shown == SelectSeq(tabData, closing)
    IN [i \in 1..Len(shown) |-> [title |-> shown[i].title, url |-> shown[i].url]]

\* one entry of duplicateGroups: the tab to keep, the active tab's index
\* instead when neverCloseActive, and every other index of the group
duplicateGroup(matchKey, groupTabs, cfg) ==
    LET actives == {i \in 1..Len(groupTabs) : groupTabs[i].active}
        tabToKeep == IF cfg.neverCloseActive /\ actives # {}
                     THEN groupTabs[SetMin(actives)].index
                     ELSE selectTabToKeep(groupTabs, cfg.keepStrategy)
        notKept(t) == t.index # tabToKeep
        closing == SelectSeq(groupTabs, notKept)
    IN [matchKey |-> matchKey, tabs |-> groupTabs, tabToKeep |-> tabToKeep,
        tabsToClose |-> [i \in 1..Len(closing) |-> closing[i].index]]

\* the DuplicateResult over the groups found: the flattened tabsToClose, its
\* length, and the details of the tabs of tabData it names
duplicateResult(tabData, groups, allTabsToClose) ==
    [duplicateGroups |-> groups,
     totalDuplicates |-> Len(allTabsToClose),
     tabsToClose |-> allTabsToClose,
     tabDetails |-> closingDetails(tabData, allTabsToClose)]

\* the Map from match key to tabs, its keys in insertion order
groupByKey(members, keys) ==
    LET firsts == {i \in 1..Len(keys) : \A j \in 1..(i - 1) : keys[j] # keys[i]}
        at(k) == {i \in 1..Len(keys) : keys[i] = k}
        pick(S) == [n \in 1..Cardinality(S) |-> members[NthOf(S, n)]]
    IN [n \in 1..Cardinality(firsts) |->
           [matchKey |-> keys[NthOf(firsts, n)], tabs |-> pick(at(keys[NthOf(firsts, n)]))]]

\* groups of at least minDuplicates tabs, each with its tab to keep
duplicateGroupsOf(groups, cfg) ==
    LET enough(g) == Len(g.tabs) >= cfg.minDuplicates
        dups == SelectSeq(groups, enough)
    IN [n \in 1..Len(dups) |-> duplicateGroup(dups[n].matchKey, dups[n].tabs, cfg)]

matchKeys(members, strategy) ==
    [i \in 1..Len(members) |-> normalizeTab(members[i], strategy)]

notWhitelisted(tabData, whitelist) ==
    LET counted(t) == ~isWhitelisted(t.url, whitelist)
    IN SelectSeq(tabData, counted)

detectDuplicatesIn(tabData, members, cfg) ==
    duplicateResult(tabData,
                    duplicateGroupsOf(groupByKey(members, matchKeys(members, cfg.matchStrategy)),
                                      cfg),
                    FlatToClose(duplicateGroupsOf(
                        groupByKey(members, matchKeys(members, cfg.matchStrategy)), cfg)))

detectDuplicates(tabData, cfg) ==
    detectDuplicatesIn(tabData, notWhitelisted(tabData, cfg.whitelistDomains), cfg)

NoDuplicateResult ==
    [duplicateGroups |-> <<>>, totalDuplicates |-> 0, tabsToClose |-> <<>>, tabDetails |-> <<>>]

dupReply(success, error, text, has, result) ==
    [success |-> success, error |-> error, message |-> text,
     hasResult |-> has, duplicateResult |-> result]

\* tabData after the ignorePinned and ignoreGrouped filters
dupCandidates(organizable, cfg) ==
    LET wanted(t) == /\ cfg.ignorePinned => ~t.pinned
                     /\ cfg.ignoreGrouped => t.groupId = -1
    IN SelectSeq(organizable, wanted)

\* steps 4 and 5: the groups filtered by the threshold again, and the
\* totals and details recomputed from them
refiltered(tabData, result, cfg) ==
    LET enough(g) == Len(g.tabs) >= cfg.minDuplicates
    IN duplicateResult(tabData, SelectSeq(result.duplicateGroups, enough),
                       FlatToClose(SelectSeq(result.duplicateGroups, enough)))

dupAnswer(result) ==
    IF result.totalDuplicates = 0
    THEN dupReply(TRUE, <<>>, <<Lit("No duplicates found with these criteria")>>,
                  FALSE, NoDuplicateResult)
    ELSE dupReply(TRUE, <<>>,
                  <<Lit("Found "), <<"count", result.totalDuplicates>>,
                    Lit(" duplicate tabs")>>,
                  TRUE, result)

findDuplicatesAmong(tabData, cfg) ==
    IF Len(tabData) < 2
    THEN dupReply(FALSE, <<Lit("Need at least 2 tabs to find duplicates")>>, <<>>,
                  FALSE, NoDuplicateResult)
    ELSE dupAnswer(refiltered(tabData, detectDuplicates(tabData, cfg), cfg))

\* the background's answer to a findDuplicates message
findDuplicateTabs(win, cfg, how) ==
    IF how = "queryFails"
    THEN dupReply(FALSE, ErrToString(QueryFailure), <<>>, FALSE, NoDuplicateResult)
    ELSE findDuplicatesAmong(dupCandidates(getOrganizableTabs(win), cfg), cfg)

\* findDuplicatesWithConfig: the status line the popup shows for an answer
dupStatus(r) ==
    IF r.success /\ r.hasResult
    THEN <<Lit("Found "), <<"count", r.duplicateResult.totalDuplicates>>,
           Lit(" duplicates in "), <<"count", Len(r.duplicateResult.duplicateGroups)>>,
           Lit(" groups")>>
    ELSE IF r.error # <<>> THEN r.error ELSE r.message

\* every match and keep strategy with and without neverCloseActive under the
\* default switches, and every setting of the switches for one match strategy
DupConfigs ==
    [matchStrategy : DuplicateMatchStrategies,
     keepStrategy : DuplicateKeepStrategies,
     whitelistDomains : {<<>>},
     ignorePinned : {TRUE},
     ignoreGrouped : {FALSE},
     neverCloseActive : BOOLEAN,
     minDuplicates : {2}]
    \cup [matchStrategy : {"url-normalized"},
          keepStrategy : {"keep-first", "keep-newest"},
          whitelistDomains : {<<>>, <<"a.com">>},
          ignorePinned : BOOLEAN,
          ignoreGrouped : BOOLEAN,
          neverCloseActive : BOOLEAN,
          minDuplicates : {2, 3}]

DupTab(id, index, url, title, active, groupId) ==
    [id |-> Num(id), index |-> index, title |-> title, scheme |-> "https:", url |-> Str(url),
     pinned |-> FALSE, active |-> active, groupId |-> groupId]

\* windows with one active tab each, as the browser reports them
DupWindows ==
    {<<DupTab(11, 0, U1, "Doc", FALSE, -1), DupTab(12, 1, U1, "Doc", TRUE, -1),
       DupTab(13, 2, U4, "Other", FALSE, -1)>>,
     <<PinnedTab, DupTab(11, 1, U1, "Doc", FALSE, -1), DupTab(12, 2, U2, "doc ", FALSE, -1),
       DupTab(13, 3, U4, "Other", TRUE, -1)>>,
     <<DupTab(11, 0, U1, "Doc", FALSE, 5), DupTab(12, 1, U3, "Doc", FALSE, -1),
       DupTab(13, 2, U1, "Doc", TRUE, -1)>>,
     <<[(CHOOSE t \in SpecialTabs : t.scheme = "about:") EXCEPT !.index = 0],
       DupTab(11, 1, U1, "Doc", FALSE, -1), DupTab(12, 2, U1, "Doc", TRUE, -1)>>,
     <<DupTab(13, 0, U5, "Doc", FALSE, -1), DupTab(12, 1, U2, "Doc", FALSE, -1),
       DupTab(11, 2, U3, "Other", TRUE, -1), DupTab(14, 3, U4, "Other", FALSE, -1)>>,
     <<[PinnedTab EXCEPT !.active = TRUE], RawAt(1), [RawAt(2) EXCEPT !.title = "Bank"],
       [RawAt(1) EXCEPT !.index = 3, !.id = Num(14)]>>,
     <<DupTab(11, 0, U1, "Doc", TRUE, -1)>>}

\* what the popup holds once the answer r has arrived
dupAfter(win, cfg, r) ==
    [phase |-> IF r.success /\ r.hasResult THEN "preview" ELSE "shown",
     config |-> cfg,
     snapshot |-> win,
     reply |-> r,
     currentCleanResult |-> [set |-> r.success /\ r.hasResult,
                             tabsToClose |-> r.duplicateResult.tabsToClose,
                             tabDetails |-> r.duplicateResult.tabDetails]]

\* the popup asks for duplicates; the background answers from the window as it
\* is, and the popup keeps the answer's tabsToClose as currentCleanResult
FindDuplicates(win, cfg, how) ==
    /\ pc = "idle"
    /\ dup.phase = "none"
    /\ dup' = dupAfter(win, cfg, findDuplicateTabs(win, cfg, how))
    /\ uiStatus' = dupStatus(dup'.reply)
    /\ window' = win
    /\ UNCHANGED <<pc, op, reqType, config, provider, tabs, guidance, prompt, netCalls,
                   candidate, response, jsonStr, outcome, gi, browserGroups, reply, storage,
                   tabIndices, removed, message, popup, requests>>
    /\ UNCHANGED callSide

\* the Confirm button: the existing handler sends currentCleanResult.tabsToClose
\* in a confirmCloseTabs message
DupConfirm ==
    /\ pc = "idle"
    /\ dup.phase = "preview"
    /\ dup.currentCleanResult.set
    /\ pc' = "received"
    /\ op' = "confirmCloseTabs"
    /\ tabIndices' = [i \in 1..Len(dup.currentCleanResult.tabsToClose) |->
                         Num(dup.currentCleanResult.tabsToClose[i])]
    /\ dup' = [dup EXCEPT !.phase = "confirming"]
    /\ UNCHANGED <<reqType, config, provider, tabs, guidance, prompt, netCalls, candidate,
                   response, jsonStr, outcome, gi, browserGroups, reply, uiStatus, storage,
                   window, removed, message, popup, requests>>
    /\ UNCHANGED callSide

\* Cancel, or the popup closes: nothing of the search is kept
DupForget ==
    /\ pc = "idle"
    /\ dup.phase # "none"
    /\ dup' = NoDup
    /\ window' = <<>>
    /\ uiStatus' = <<>>
    /\ UNCHANGED <<pc, op, reqType, config, provider, tabs, guidance, prompt, netCalls,
                   candidate, response, jsonStr, outcome, gi, browserGroups, reply, storage,
                   tabIndices, removed, message, popup, requests>>
    /\ UNCHANGED callSide

NextDup ==
    \/ \E win \in DupWindows, cfg \in DupConfigs, how \in {"ok", "queryFails"} :
          FindDuplicates(win, cfg, how)
    \/ DupConfirm
    \/ \E how \in {"none", "ok", "removeFails", "queryFails"} : ConfirmClose(how)
    \/ PopupShow
    \/ Again
    \/ DupForget

SpecDup == Init /\ [][NextDup]_vars

\* ---------------------------------------------------------------- C23, C24
\* the search found duplicates and the popup shows or confirms them
DupFound == dup.phase \in {"preview", "confirming"}

\* the tabs of the window that were active when the search was made
ActiveAt == {i \in 1..Len(dup.snapshot) : dup.snapshot[i].active}

\* the result's tabsToClose leaves out the index of the active tab
ResultSparesActive ==
    (DupFound /\ dup.config.neverCloseActive) =>
        \A i \in ActiveAt :
            \A k \in 1..Len(dup.reply.duplicateResult.tabsToClose) :
                dup.reply.duplicateResult.tabsToClose[k] # dup.snapshot[i].index

\* C23: with neverCloseActive the duplicate flow never closes the active tab:
\* its index is not among DuplicateResult.tabsToClose, and confirmCloseTabs,
\* given that tabsToClose, does not hand the active tab's id to tabs.remove,
\* in windows with pinned or special tabs too.
C23_ActiveSurvives ==
    (DupFound /\ dup.config.neverCloseActive) =>
        \A i \in ActiveAt :
            /\ \A k \in 1..Len(dup.reply.duplicateResult.tabsToClose) :
                  dup.reply.duplicateResult.tabsToClose[k] # dup.snapshot[i].index
            /\ \A k \in 1..Len(removed) : Num(removed[k]) # dup.snapshot[i].id

\* C24: in every group detectDuplicates reports, whatever the keep strategy,
\* tabToKeep is the index of a tab of the group, tabsToClose leaves it out,
\* and so tabsToClose never holds every tab of the group.
C24_KeepsOne ==
    DupFound =>
        \A n \in 1..Len(dup.reply.duplicateResult.duplicateGroups) :
            LET g == dup.reply.duplicateResult.duplicateGroups[n]
            IN /\ \E i \in 1..Len(g.tabs) : g.tabs[i].index = g.tabToKeep
               /\ \A k \in 1..Len(g.tabsToClose) : g.tabsToClose[k] # g.tabToKeep
               /\ Len(g.tabsToClose) < Len(g.tabs)

\* the same for the four strategies that answer with a tab's index
KeepsOneByIndex ==
    (DupFound /\ dup.config.keepStrategy \notin {"keep-newest", "keep-oldest"}) =>
        \A n \in 1..Len(dup.reply.duplicateResult.duplicateGroups) :
            LET g == dup.reply.duplicateResult.duplicateGroups[n]
            IN /\ \E i \in 1..Len(g.tabs) : g.tabs[i].index = g.tabToKeep
               /\ \A k \in 1..Len(g.tabsToClose) : g.tabsToClose[k] # g.tabToKeep
               /\ Len(g.tabsToClose) < Len(g.tabs)

\* --------------------------------------- the popup and its requests in flight
\* The popup's buttons stay enabled while a request is awaited, so clicks,
\* the background's handling and the arrival of answers interleave freely,
\* and the user goes on opening, closing, moving and pinning tabs.

\* tab.index as the browser keeps it: the position in the window
Reindex(win) == [i \in 1..Len(win) |-> [win[i] EXCEPT !.index = i - 1]]

NewTab == [id |-> Num(30), index |-> 0, title |-> "News", scheme |-> "https:",
           url |-> Str("news.com"), pinned |-> FALSE, active |-> FALSE, groupId |-> -1]

PopupWindows ==
    {Reindex(<<RawAt(1), RawAt(2), RawAt(3)>>),
     Reindex(<<PinnedTab, RawAt(1), RawAt(2)>>)}

PinnedCount(win) == Cardinality({i \in 1..Len(win) : win[i].pinned})

Without(win, i) == [k \in 1..(Len(win) - 1) |-> IF k < i THEN win[k] ELSE win[k + 1]]

InsertAt(win, p, tab) ==
    [k \in 1..(Len(win) + 1) |-> IF k < p THEN win[k] ELSE IF k = p THEN tab ELSE win[k - 1]]

\* what the user can do to the window: close a tab, open one after the
\* pinned tabs or at the end, move the last tab before the other unpinned
\* ones, pin a tab (it joins the pinned tabs at the front)
TabEvents(win) ==
    {Reindex(Without(win, i)) : i \in 1..Len(win)}
    \cup {Reindex(InsertAt(win, p, NewTab)) : p \in {PinnedCount(win) + 1, Len(win) + 1}}
    \cup (IF Len(win) > PinnedCount(win) + 1
          THEN {Reindex(InsertAt(Without(win, Len(win)), PinnedCount(win) + 1, win[Len(win)]))}
          ELSE {})
    \cup {Reindex(InsertAt(Without(win, i), PinnedCount(win) + 1,
                           [win[i] EXCEPT !.pinned = TRUE])) :
             i \in {j \in 1..Len(win) : ~win[j].pinned}}

\* the indices a provider names in a clean result
CleanAnswers == {<<>>, <<Num(0)>>, <<Num(1), Num(0)>>}

CleanFailure == Err("Error", <<Lit("Rate limit exceeded")>>)

\* a request the popup sent with browser.runtime.sendMessage
Request(kind, indices, of) ==
    [kind |-> kind, phase |-> "sent", tabIndices |-> indices, of |-> of, reply |-> NoReply,
     closed |-> <<>>, calls |-> 0]

\* cleanTabsWithAI as the popup sees it: the tabs queried, and then the
\* provider's validated result with their details, or the error caught
cleanAnswer(win, how, indices) ==
    IF getOrganizableTabs(win) = <<>> THEN noTabsReply("cleanTabs")
    ELSE IF how = "fails" THEN failureReply(CleanFailure)
    ELSE cleanSuccess(withTabDetails(Clean(indices, Str("stale")), getOrganizableTabs(win)))

\* the tabs of tabData that have one of the ids
tabsWithIds(tabData, ids) ==
    LET named(t) == \E k \in 1..Len(ids) : ids[k] = t.id
    IN SelectSeq(tabData, named)

\* the window once browser.tabs.remove(ids) is done
afterRemove(win, ids) ==
    LET stays(t) == t.id = Undef \/ \A k \in 1..Len(ids) : t.id[2] # ids[k]
    IN Reindex(SelectSeq(win, stays))

\* DOMContentLoaded in a window
OpenPopup(win) ==
    /\ pc = "idle"
    /\ dup.phase = "none"
    /\ ~popup.open
    /\ popup' = [NoPopup EXCEPT !.open = TRUE]
    /\ window' = win
    /\ UNCHANGED <<pc, op, reqType, config, provider, tabs, guidance, prompt, netCalls,
                   candidate, response, jsonStr, outcome, gi, browserGroups, reply, uiStatus,
                   storage, tabIndices, removed, message, requests, dup>>
    /\ UNCHANGED callSide

\* the clean button: an empty prompt is refused; otherwise the preview is
\* hidden and a cleanTabs message is sent
ClickClean(g) ==
    /\ popup.open
    /\ IF g = ""
       THEN /\ popup' = [popup EXCEPT
                           !.status = <<Lit("Error: Please enter a prompt for cleaning tabs")>>]
            /\ UNCHANGED requests
       ELSE /\ Len(requests) < MaxRequests
            /\ popup' = [popup EXCEPT !.status = <<Lit("Analyzing tabs...")>>,
                                      !.previewVisible = FALSE]
            /\ requests' = Append(requests, Request("cleanTabs", <<>>, 0))
    /\ UNCHANGED <<pc, op, reqType, config, provider, tabs, guidance, prompt, netCalls,
                   candidate, response, jsonStr, outcome, gi, browserGroups, reply, uiStatus,
                   storage, window, tabIndices, removed, message, dup>>
    /\ UNCHANGED callSide

\* the background answers a cleanTabs message from the window as it is
BackgroundClean(r, how, indices) ==
    /\ r \in 1..Len(requests)
    /\ requests[r].kind = "cleanTabs"
    /\ requests[r].phase = "sent"
    /\ requests' = [requests EXCEPT ![r].phase = "answered",
                                    ![r].reply = cleanAnswer(window, how, indices)]
    /\ UNCHANGED <<pc, op, reqType, config, provider, tabs, guidance, prompt, netCalls,
                   candidate, response, jsonStr, outcome, gi, browserGroups, reply, uiStatus,
                   storage, window, tabIndices, removed, message, popup, dup>>
    /\ UNCHANGED callSide

\* the clean handler resumes with the answer
CleanArrives(r) ==
    /\ r \in 1..Len(requests)
    /\ requests[r].kind = "cleanTabs"
    /\ requests[r].phase = "answered"
    /\ requests' = [requests EXCEPT ![r].phase = "handled"]
    /\ popup' =
         IF requests[r].reply.success /\ Truthy(requests[r].reply.cleanResult)
         THEN IF Len(Get(requests[r].reply.cleanResult, "tabsToClose")[2]) = 0
              THEN [popup EXCEPT !.currentCleanResult = requests[r].reply.cleanResult,
                                 !.resultOf = r,
                                 !.status = popupStatus("cleanTabs", requests[r].reply)]
              ELSE [popup EXCEPT !.currentCleanResult = requests[r].reply.cleanResult,
                                 !.resultOf = r,
                                 !.previewList =
                                     Get(requests[r].reply.cleanResult, "tabDetails")[2],
                                 !.previewVisible = TRUE,
                                 !.status = popupStatus("cleanTabs", requests[r].reply)]
         ELSE [popup EXCEPT !.status = popupStatus("cleanTabs", requests[r].reply)]
    /\ UNCHANGED <<pc, op, reqType, config, provider, tabs, guidance, prompt, netCalls,
                   candidate, response, jsonStr, outcome, gi, browserGroups, reply, uiStatus,
                   storage, window, tabIndices, removed, message, dup>>
    /\ UNCHANGED callSide

\* Copy URLs, Confirm and Cancel are the buttons of the preview section:
\* they can be clicked while it is shown.
\* the Copy URLs button
ClickCopy(how) ==
    /\ popup.open
    /\ popup.previewVisible
    /\ popup' = IF popup.currentCleanResult = Null THEN popup
                ELSE [popup EXCEPT !.status =
                         IF how = "ok" THEN <<Lit("OK URLs copied to clipboard!")>>
                         ELSE <<Lit("Error: Failed to copy")>>]
    /\ UNCHANGED <<pc, op, reqType, config, provider, tabs, guidance, prompt, netCalls,
                   candidate, response, jsonStr, outcome, gi, browserGroups, reply, uiStatus,
                   storage, window, tabIndices, removed, message, requests, dup>>
    /\ UNCHANGED callSide

\* the Confirm button: nothing without a result; otherwise a confirmCloseTabs
\* message with currentCleanResult.tabsToClose
ClickConfirm ==
    /\ popup.open
    /\ popup.previewVisible
    /\ IF popup.currentCleanResult = Null
       THEN UNCHANGED <<popup, requests>>
       ELSE /\ Len(requests) < MaxRequests
            /\ popup' = [popup EXCEPT !.status = <<Lit("Closing tabs...")>>]
            /\ requests' = Append(requests,
                                  Request("confirmCloseTabs",
                                          Get(popup.currentCleanResult, "tabsToClose")[2],
                                          popup.resultOf))
    /\ UNCHANGED <<pc, op, reqType, config, provider, tabs, guidance, prompt, netCalls,
                   candidate, response, jsonStr, outcome, gi, browserGroups, reply, uiStatus,
                   storage, window, tabIndices, removed, message, dup>>
    /\ UNCHANGED callSide

\* the background handles a confirmCloseTabs message: the window is queried
\* again and the indices are resolved against what it holds now
BackgroundConfirm(r, how) ==
    /\ r \in 1..Len(requests)
    /\ requests[r].kind = "confirmCloseTabs"
    /\ requests[r].phase = "sent"
    /\ LET tabData == getOrganizableTabs(window)
           tabIdsToClose == getTabIds(tabData, requests[r].tabIndices)
       IN IF how = "queryFails"
          THEN /\ requests' = [requests EXCEPT ![r].phase = "answered",
                                              ![r].reply = failureReply(QueryFailure)]
               /\ UNCHANGED window
          ELSE IF tabIdsToClose = <<>>
          THEN /\ how = "none"
               /\ requests' = [requests EXCEPT
                                  ![r].phase = "answered",
                                  ![r].reply = [sent |-> TRUE, success |-> FALSE,
                                                error |-> <<Lit("No valid tabs to close")>>,
                                                message |-> <<>>, cleanResult |-> Undef]]
               /\ UNCHANGED window
          ELSE \/ /\ how = "ok"
                  /\ requests' = [requests EXCEPT
                                     ![r].phase = "answered",
                                     ![r].reply = closeSuccess(tabIdsToClose),
                                     ![r].closed = tabsWithIds(tabData, tabIdsToClose),
                                     ![r].calls = 1]
                  /\ window' = afterRemove(window, tabIdsToClose)
               \/ /\ how = "removeFails"
                  /\ requests' = [requests EXCEPT
                                     ![r].phase = "answered",
                                     ![r].reply = failureReply(Err("Error", <<Lit("Invalid tab ID")>>)),
                                     ![r].calls = 1]
                  /\ UNCHANGED window
    /\ UNCHANGED <<pc, op, reqType, config, provider, tabs, guidance, prompt, netCalls,
                   candidate, response, jsonStr, outcome, gi, browserGroups, reply, uiStatus,
                   storage, tabIndices, removed, message, popup, dup>>
    /\ UNCHANGED callSide

\* the confirm handler resumes with the answer
ConfirmArrives(r) ==
    /\ r \in 1..Len(requests)
    /\ requests[r].kind = "confirmCloseTabs"
    /\ requests[r].phase = "answered"
    /\ requests' = [requests EXCEPT ![r].phase = "handled"]
    /\ popup' =
         IF requests[r].reply.success
         THEN [popup EXCEPT !.status = popupStatus("confirmCloseTabs", requests[r].reply),
                            !.previewVisible = FALSE,
                            !.currentCleanResult = Null]
         ELSE [popup EXCEPT !.status = popupStatus("confirmCloseTabs", requests[r].reply)]
    /\ UNCHANGED <<pc, op, reqType, config, provider, tabs, guidance, prompt, netCalls,
                   candidate, response, jsonStr, outcome, gi, browserGroups, reply, uiStatus,
                   storage, window, tabIndices, removed, message, dup>>
    /\ UNCHANGED callSide

\* the Cancel button
ClickCancel ==
    /\ popup.open
    /\ popup.previewVisible
    /\ popup' = [popup EXCEPT !.previewVisible = FALSE, !.currentCleanResult = Null,
                              !.status = <<>>]
    /\ UNCHANGED <<pc, op, reqType, config, provider, tabs, guidance, prompt, netCalls,
                   candidate, response, jsonStr, outcome, gi, browserGroups, reply, uiStatus,
                   storage, window, tabIndices, removed, message, requests, dup>>
    /\ UNCHANGED callSide

\* the user changes the window while the popup is open
TabEvent(win) ==
    /\ popup.open
    /\ popup.changes < MaxChanges
    /\ win \in TabEvents(window)
    /\ window' = win
    /\ popup' = [popup EXCEPT !.changes = @ + 1]
    /\ UNCHANGED <<pc, op, reqType, config, provider, tabs, guidance, prompt, netCalls,
                   candidate, response, jsonStr, outcome, gi, browserGroups, reply, uiStatus,
                   storage, tabIndices, removed, message, requests, dup>>
    /\ UNCHANGED callSide

NextPopup ==
    \/ \E win \in PopupWindows : OpenPopup(win)
    \/ \E g \in Guidances : ClickClean(g)
    \/ \E r \in 1..MaxRequests : \E indices \in CleanAnswers : BackgroundClean(r, "ok", indices)
    \/ \E r \in 1..MaxRequests : BackgroundClean(r, "fails", <<>>)
    \/ \E r \in 1..MaxRequests : CleanArrives(r)
    \/ \E how \in {"ok", "fails"} : ClickCopy(how)
    \/ ClickConfirm
    \/ \E r \in 1..MaxRequests :
          \E how \in {"none", "ok", "removeFails", "queryFails"} : BackgroundConfirm(r, how)
    \/ \E r \in 1..MaxRequests : ConfirmArrives(r)
    \/ ClickCancel
    \/ \E win \in TabEvents(window) : TabEvent(win)

SpecPopup == Init /\ [][NextPopup]_vars

\* ------------------------------------------------------------ C27, C28, C29
Confirms == {r \in 1..Len(requests) : requests[r].kind = "confirmCloseTabs"}

\* the tabDetails of the clean result that request r confirms
PreviewedBy(r) == Get(requests[requests[r].of].reply.cleanResult, "tabDetails")[2]

\* C27: every tab that confirmCloseTabs closes had its title and URL in the
\* preview of the clean result being confirmed, whatever tabs were opened,
\* closed, moved or pinned between the cleanTabs answer and the confirmation.
C27_ClosesPreviewed ==
    \A r \in Confirms :
        \A k \in 1..Len(requests[r].closed) :
            \E j \in 1..Len(PreviewedBy(r)) :
                PreviewedBy(r)[j] = Detail(requests[r].closed[k].title, requests[r].closed[k].url)

\* the same while the window stays as it was and one confirmation is made
ClosesPreviewedUndisturbed ==
    (popup.changes = 0 /\ Cardinality(Confirms) <= 1) => C27_ClosesPreviewed

\* C28: one preview leads to at most one close: whatever is clicked, and
\* while an earlier confirmCloseTabs request is in flight too, at most one
\* confirmCloseTabs request is sent and at most one tabs.remove call is made
\* for a clean result.
C28_OneClose ==
    \A r1 \in Confirms, r2 \in Confirms :
        r1 # r2 => /\ requests[r1].of # requests[r2].of
                   /\ requests[r1].calls + requests[r2].calls <= 1

\* without a result the Confirm and Copy URLs buttons do nothing
InertWithoutResult ==
    [][popup.currentCleanResult = Null =>
          /\ Len(requests') > Len(requests) => requests'[Len(requests')].kind = "cleanTabs"
          /\ popup'.status # <<Lit("OK URLs copied to clipboard!")>>]_vars

\* a successful confirmation and Cancel leave no result behind
ForgetsResult ==
    [][(ClickCancel \/ \E r \in Confirms : ConfirmArrives(r) /\ requests[r].reply.success)
          => popup'.currentCleanResult = Null]_vars

\* the preview is never shown without a result
PreviewHasResult == popup.previewVisible => popup.currentCleanResult # Null

\* C29: while the preview section is visible, currentCleanResult is not null
\* and the preview lists exactly currentCleanResult.tabDetails, however the
\* clicks on the clean button and the arrivals of their answers interleave.
C29_PreviewIsResult ==
    popup.previewVisible =>
        /\ popup.currentCleanResult # Null
        /\ popup.previewList = Get(popup.currentCleanResult, "tabDetails")[2]

====
